---------------------------- MODULE Spec2Model ----------------------------
(***************************************************************************)
(* A model of the lab device proxy: the server's POST handler              *)
(* (lab_device_proxy_server.py) and the client driver and shared chunk /   *)
(* tar code (lab_device_proxy_client.py).                                  *)
(*                                                                         *)
(* Python values are modelled as follows.  None is the string "None" for   *)
(* string fields and the empty path for path fields; the header's boolean  *)
(* fields are "None" / "True" / "False".  A path is the sequence of its    *)
(* components ("/tmp/proxy_" is <<"tmp", "proxy_">>).  A byte string is a   *)
(* sequence of numbers.                                                    *)
(***************************************************************************)
EXTENDS Integers, Sequences, FiniteSets, TLC

VARIABLES
  pc,        \* do_POST: the handler's position
  on_error,  \* do_POST: the local on_error
  status,    \* the HTTP status lines sent on the response, in order
  connected, \* whether the client still holds the connection open
  params,    \* do_POST: the list of Param
  root_fn,   \* TempFileSystem._root_fn ("None" or "made")
  fs,        \* the server's file system: a set of entries [p, t, d, l]
  pipes,     \* the UntarPipe / UntarThread of each parameter index
  spawned,   \* subprocess.Popen: "no" (not called), "ok" or "failed"
  args,      \* the argument list handed to subprocess.Popen
  reqs,      \* _ValidateCommand: the grammar's classification of args
  nchunks,   \* the number of request chunks read so far
  unread,    \* whether request bytes lie unread in the socket after Phase 1
  child,     \* the subprocess: [st, out, err, rc, polled]
  pout,      \* the bytes in the child's stdout pipe, not yet read
  perr,      \* the bytes in the child's stderr pipe, not yet read
  rlist,     \* _RunCommand: what the last select() reported ready
  sent,      \* the response body: the chunks written to wfile, in order
  reqwire,   \* the request chunks the client sent, not yet read
  cparams,   \* client: the Parameters parsed from the command line
  cfs,       \* client: its file system
  cpc,       \* client: the position of main / Call
  rpos,      \* client: the number of response chunks read
  cout,      \* client: the bytes written to its stdout
  cerr,      \* client: the bytes written to its stderr
  exitbuf,   \* client: id_to_fp['exit'], the bytes of the StringIO
  opened,    \* client: the o<N> ids with an entry in id_to_fp
  ctar,      \* client: the tar entries written to Untar pipes
  ret,       \* client: what Call returned, [none, v]
  exit_code, \* client: the exit status of the process (-1 while it runs)
  hdr,       \* a ChunkHeader
  line,      \* <<header.Format()>> once it is formatted
  parsed,    \* <<the outcome of ChunkHeader().Parse(line)>> once it is parsed
  cmdline,   \* the args given to PARSER.parse_args
  nsparams,  \* <<[ok, ps]>> once parsed: ps is the namespace's params list
  upipe      \* an UntarPipe with its writer and its reader

svars == <<pc, on_error, status, connected, params, root_fn, fs, pipes,
           spawned, args, reqs, nchunks, unread>>
srest == <<on_error, status, connected, params, root_fn, fs, pipes,
           spawned, args, reqs, nchunks, unread>>
procv == <<child, pout, perr, rlist>>
cvars == <<cparams, cfs, cpc, rpos, cout, cerr, exitbuf, opened, ctar, ret,
           exit_code>>
hvars == <<hdr, line, parsed, cmdline, nsparams, upipe>>
vars == <<svars, procv, sent, reqwire, cvars, hvars>>

None == "None"
NoPath == <<>>

(***************************************************************************)
(* Bounds of the model.                                                    *)
(***************************************************************************)
MaxParams == 3   \* longest parameter list a request may build
MaxChunks == 3   \* most chunks (terminator excluded) a request may send
MAX_READ == 2    \* MAX_READ of the source (8192), scaled down

(***************************************************************************)
(* Paths: os.path.join and os.path.normpath on component sequences.        *)
(***************************************************************************)
IsPrefix(a, b) == Len(a) <= Len(b) /\ SubSeq(b, 1, Len(a)) = a

RECURSIVE NormComps(_, _)
NormComps(acc, comps) ==
  IF comps = <<>> THEN acc
  ELSE LET c == Head(comps) IN
       IF c \in {"", "."} THEN NormComps(acc, Tail(comps))
       ELSE IF c = ".."
            THEN NormComps(IF acc = <<>> THEN <<>> ELSE SubSeq(acc, 1, Len(acc) - 1),
                           Tail(comps))
            ELSE NormComps(Append(acc, c), Tail(comps))

\* os.path.normpath(os.path.join(parent, name)) for an absolute parent; name
\* is [abs |-> BOOLEAN, comps |-> Seq(STRING)].  join drops the parent when
\* the name is absolute.
NormJoin(parent, name) ==
  IF name.abs THEN NormComps(<<>>, name.comps)
  ELSE NormComps(<<>>, parent \o name.comps)

\* A header's in/out value holds no "/" (ChunkHeader._Validate), so it is
\* one component.
OneComp(s) == [abs |-> FALSE, comps |-> <<s>>]

\* fn == parent or fn.startswith(parent + '/')
Confined(parent, fn) == IsPrefix(parent, fn)


(***************************************************************************)
(* ChunkHeader: the parsed fields.  The id is kept as its letter and its    *)
(* number: "a3" is [l |-> "a", n |-> 3]; an id that is no letter followed  *)
(* by digits ("1", "exit", a missing id) has n = -1.                        *)
(***************************************************************************)
Id(l, n) == [l |-> l, n |-> n]

Hdr(len, id, in, out, absent, empty, tar) ==
  [len_ |-> len, id_ |-> id, in_ |-> in, out_ |-> out,
   is_absent_ |-> absent, is_empty_ |-> empty, is_tar_ |-> tar, zz_ |-> None]

\* Python truthiness of a string field and of a boolean field
Truthy(v) == v \notin {None, ""}
IsTrue(b) == b = "True"

(***************************************************************************)
(* Param (server side) and the values an argument can take: the text of a  *)
(* scalar chunk, or a path built by the server.                            *)
(***************************************************************************)
StrVal(s) == [k |-> "str", s |-> s, p |-> NoPath]
PathVal(p) == [k |-> "path", s |-> "", p |-> p]
NoVal == [k |-> "none", s |-> "", p |-> NoPath]

Param(index, header) ==
  [index |-> index, value |-> NoVal, header |-> header,
   in_fp |-> None, out_dn |-> NoPath]

(***************************************************************************)
(* TempFileSystem and the file system.  An entry is [p, t, d, l]: its      *)
(* real path, its type ("dir", "file", "link"), a file's bytes and a        *)
(* link's target.  mkdtemp's random suffix is left out: a request makes at *)
(* most one directory per parameter index.                                 *)
(***************************************************************************)
TmpRoot == <<"tmp", "proxy_">>

InPrefix == <<"in0_", "in1_", "in2_", "in3_", "in4_">>
OutPrefix == <<"out0_", "out1_", "out2_", "out3_", "out4_">>

Dir(p) == [p |-> p, t |-> "dir", d |-> <<>>, l |-> NoPath]
File(p, d) == [p |-> p, t |-> "file", d |-> d, l |-> NoPath]
Link(p, l) == [p |-> p, t |-> "link", d |-> <<>>, l |-> l]

FsHas(f, p) == \E e \in f : e.p = p
FsGet(f, p) == CHOOSE e \in f : e.p = p
FsPut(f, e) == {x \in f : x.p # e.p} \cup {e}
FsIsDir(f, p) == \E e \in f : e.p = p /\ e.t = "dir"

\* TempFileSystem.Mkdir: the directory it returns, and the file system after
MkdirPath(prefix) == Append(TmpRoot, prefix)
Mkdir(f, prefix) == FsPut(FsPut(f, Dir(TmpRoot)), Dir(MkdirPath(prefix)))

\* shutil.rmtree(root): the root and everything under it
Rmtree(f, root) == {e \in f : ~IsPrefix(root, e.p)}

\* TempFileSystem.Cleanup
Cleanup(f, root) == IF root # None THEN Rmtree(f, TmpRoot) ELSE f

(***************************************************************************)
(* Tar entries and their extraction (tarfile.extract, as UntarThread.run   *)
(* calls it): the parent directories are made, a symbolic link is made as  *)
(* a link, and a path that runs through a link is written where the link   *)
(* points.                                                                 *)
(***************************************************************************)
TarFile(name) == [name |-> name, t |-> "file", l |-> NoPath]
TarLink(name, target) == [name |-> name, t |-> "link", l |-> target]

RECURSIVE Resolve(_, _, _)
\* the real path of `done \o rest`, following the links of f on the way
Resolve(f, done, rest) ==
  IF rest = <<>> THEN done
  ELSE LET next == Append(done, Head(rest)) IN
       IF \E e \in f : e.p = next /\ e.t = "link" /\ Tail(rest) # <<>>
       THEN Resolve(f, FsGet(f, next).l, Tail(rest))
       ELSE Resolve(f, next, Tail(rest))

RECURSIVE Makedirs(_, _)
Makedirs(f, p) ==
  IF p = <<>> \/ FsHas(f, p) THEN f
  ELSE FsPut(Makedirs(f, SubSeq(p, 1, Len(p) - 1)), Dir(p))

\* from_tar.extract(tar_entry, to_dn), for the normalised path fn
Extract(f, fn, entry) ==
  LET real == Resolve(f, <<>>, fn)
      up == Makedirs(f, SubSeq(real, 1, Len(real) - 1))
  IN IF entry.t = "link" THEN FsPut(up, Link(real, entry.l))
     ELSE IF entry.t = "dir" THEN Makedirs(up, real)
     ELSE FsPut(up, File(real, <<>>))

(***************************************************************************)
(* UntarPipe and UntarThread, one per parameter index that opened a tar:   *)
(* buf holds the written data not yet read (here: whole tar entries), st   *)
(* is the thread's state: "none" (not started), "run", "dead" (run raised) *)
(* or "done" (run returned).                                               *)
(***************************************************************************)
NoPipe == [buf |-> <<>>, closed |-> FALSE, st |-> "none", to_dn |-> NoPath]
Untar(to_fn) == [buf |-> <<>>, closed |-> FALSE, st |-> "run", to_dn |-> to_fn]


(***************************************************************************)
(* A request chunk as the server reads it: bad (the header line does not   *)
(* parse), the parsed header h, the payload read as a scalar's text (tok), *)
(* as file bytes (bytes) or as the tar entries it carries (ents), and      *)
(* whether CRLF follows the payload.  The header's len is the number of     *)
(* file bytes for a file chunk and is 1 for a text or tar payload, whose    *)
(* length plays no part beyond being positive.                             *)
(***************************************************************************)
Chunk(h, tok, bytes, ents, crlf) ==
  [bad |-> FALSE, h |-> h, tok |-> tok, bytes |-> bytes, ents |-> ents,
   crlf |-> crlf]

NoHdr == Hdr(0, Id(None, -1), None, None, None, None, None)
BadChunk == [bad |-> TRUE, h |-> NoHdr, tok |-> "", bytes |-> <<>>,
             ents |-> <<>>, crlf |-> FALSE]
Terminator == Chunk(NoHdr, "", <<>>, <<>>, FALSE)

(***************************************************************************)
(* _ReadChunk.  The handler's state it works on is S = [params, fs, pipes, *)
(* root]; the result adds res: "more" (returns True), "end" (returns       *)
(* False) or "raise".  What was done before a raise stays done.            *)
(***************************************************************************)
RC(res, ps, f, pp, rt) ==
  [res |-> res, params |-> ps, fs |-> f, pipes |-> pp, root |-> rt]

\* curr_index: int(header.id_[1:]) when the id matches [aio]\d+$, else None (-2)
CurrIndex(h) ==
  IF h.id_.l \in {"a", "i", "o"} /\ h.id_.n >= 0 THEN h.id_.n ELSE -2

\* Locate with the ordering check loosened: any later index starts a Param
Locate_AnyLater(ps, h) ==
  IF h.len_ > 0
  THEN LET curr_index == CurrIndex(h)
           prev_index == Len(ps) - 1
       IN IF curr_index = prev_index THEN "cont"
          ELSE IF curr_index > prev_index THEN "new"
          ELSE "raise"
  ELSE "none"

\* lines 149-165: a continuation of prev, a new Param, an error, or no curr
Locate(ps, h) ==
  IF h.len_ > 0
  THEN LET curr_index == CurrIndex(h)
           prev_index == Len(ps) - 1
       IN IF curr_index = prev_index THEN "cont"
          ELSE IF curr_index = prev_index + 1 THEN "new"
          ELSE "raise"
  ELSE "none"

\* lines 186-213: the chunk of an input file, for the parameter at pos
ReadInput(ps, f, pp, rt, c, loc, pos) ==
  LET h == c.h
      index == ps[pos].index
      parent_fn == MkdirPath(InPrefix[index + 1])
      f1 == IF loc = "new" THEN Mkdir(f, InPrefix[index + 1]) ELSE f
      rt1 == IF loc = "new" THEN "made" ELSE rt
      in_fn == NormJoin(parent_fn, OneComp(h.in_))
      opens == loc = "new" /\ ~IsTrue(h.is_absent_)
      ps1 == IF loc # "new" THEN ps
             ELSE [ps EXCEPT ![pos].value = PathVal(in_fn),
                             ![pos].in_fp = IF ~opens THEN None
                                            ELSE IF IsTrue(h.is_tar_) THEN "pipe"
                                            ELSE "file"]
      f2 == IF opens /\ ~IsTrue(h.is_tar_) THEN FsPut(f1, File(in_fn, <<>>))
            ELSE f1
      pp1 == IF opens /\ IsTrue(h.is_tar_)
             THEN [pp EXCEPT ![pos] = Untar(parent_fn)] ELSE pp
      fp == ps1[pos].in_fp
      file_fn == ps1[pos].value.p
  IN IF Truthy(h.out_) THEN RC("raise", ps, f, pp, rt)
     ELSE IF loc = "cont" /\ (ps[pos].in_fp = None \/ IsTrue(h.is_empty_)
                              \/ IsTrue(h.is_absent_))
     THEN RC("raise", ps, f, pp, rt)
     ELSE IF loc = "new" /\ ~Confined(parent_fn, in_fn)
     THEN RC("raise", ps, f1, pp, rt1)
     ELSE IF opens /\ ~IsTrue(h.is_tar_) /\ FsIsDir(f1, in_fn)
     THEN RC("raise", ps, f1, pp, rt1)   \* open() of a directory
     ELSE IF IsTrue(h.is_absent_) \/ IsTrue(h.is_empty_)
     THEN RC("more", ps1, f2, pp1, rt1)
     ELSE IF fp = "file"
     THEN RC("more", ps1,
             FsPut(f2, File(file_fn, FsGet(f2, file_fn).d \o c.bytes)), pp1, rt1)
     ELSE IF pp1[pos].closed THEN RC("raise", ps1, f2, pp1, rt1)
     ELSE RC("more", ps1, f2,
             [pp1 EXCEPT ![pos].buf = pp1[pos].buf \o c.ents], rt1)

\* lines 215-222: the placeholder of an output file
ReadOutput(ps, f, pp, rt, c, pos) ==
  LET h == c.h
      index == ps[pos].index
      out_dn == MkdirPath(OutPrefix[index + 1])
      f1 == Mkdir(f, OutPrefix[index + 1])
      out_fn == NormJoin(out_dn, OneComp(h.out_))
      ps1 == [ps EXCEPT ![pos].out_dn = out_dn]
  IN IF ~Confined(out_dn, out_fn) THEN RC("raise", ps1, f1, pp, "made")
     ELSE RC("more", [ps1 EXCEPT ![pos].value = PathVal(out_fn)], f1, pp, "made")

\* lines 183-222
ReadBody(ps, f, pp, rt, c, loc, pos) ==
  LET h == c.h
  IN IF ~Truthy(h.in_) /\ ~Truthy(h.out_)
     THEN RC("more", [ps EXCEPT ![pos].value = StrVal(c.tok)], f, pp, rt)
     ELSE IF Truthy(h.in_) THEN ReadInput(ps, f, pp, rt, c, loc, pos)
     ELSE ReadOutput(ps, f, pp, rt, c, pos)

ContinuationError_None(header, prev_header) == FALSE

\* lines 174-177: 'Unexpected header change' and 'Duplicate header'
ContinuationError(header, prev_header) ==
  header # prev_header \/ ~Truthy(header.in_)

\* eof: the stream ends inside this chunk's payload or before the CRLF after
\* it.  read() then returns '' for ever, and neither ReadExactly's loop
\* (client 745-750) nor the payload loop (lines 209-213) counts a byte more:
\* the result is "spin".
ReadChunk(S, c, eof) ==
  LET h == c.h
      loc == Locate(S.params, h)
      n == Len(S.params)   \* prev is params[n], or None when n = 0
      ps1 == IF loc = "new" THEN Append(S.params, Param(CurrIndex(h), h))
             ELSE S.params
      curr_is_prev == loc = "cont" \/ (loc = "none" /\ n = 0)
      closes == ~curr_is_prev /\ n > 0 /\ ps1[n].in_fp # None
      ps2 == IF closes THEN [ps1 EXCEPT ![n].in_fp = None] ELSE ps1
      pp2 == IF closes /\ ps1[n].in_fp = "pipe"
             THEN [S.pipes EXCEPT ![n].closed = TRUE] ELSE S.pipes
      ps3 == IF curr_is_prev /\ n > 0
             THEN [ps2 EXCEPT ![n].header.len_ = h.len_] ELSE ps2
      body == ReadBody(ps3, S.fs, pp2, S.root, c, loc, Len(ps3))
  IN IF c.bad \/ loc = "raise" THEN RC("raise", S.params, S.fs, S.pipes, S.root)
     ELSE IF curr_is_prev /\ (n = 0 \/ ContinuationError(h, ps3[n].header))
     THEN RC("raise", ps3, S.fs, pp2, S.root)
     ELSE IF h.len_ <= 0 THEN RC("end", ps3, S.fs, pp2, S.root)
     ELSE IF eof /\ ~Truthy(h.in_) THEN RC("spin", ps3, S.fs, pp2, S.root)
     ELSE IF body.res = "raise" THEN body
     ELSE IF eof THEN [body EXCEPT !.res = "spin"]
     ELSE IF ~c.crlf THEN [body EXCEPT !.res = "raise"]
     ELSE body


(***************************************************************************)
(* The argument grammar (_CreateParser, ParameterParser.parse_args,        *)
(* ParameterNamespace), for three of its commands and the options named    *)
(* below:                                                                  *)
(*   idevicescreenshot [-d] <out:local>                                    *)
(*   ideviceinstaller [-d] [-i <in>]                                       *)
(*   idevice-app-runner [-D <str>*]                                        *)
(* An argument is the text of a scalar, or "PATH" for a path the server    *)
(* built (an absolute path, never an option or a command name).  The       *)
(* result is [ok, kinds]: kinds lists, in order, the class of each entry   *)
(* the namespace collected: "scalar", "in" (InputFileParameter) or "out"   *)
(* (OutputFileParameter).                                                  *)
(***************************************************************************)
Commands == {"idevicescreenshot", "ideviceinstaller", "idevice-app-runner"}
Options == {"-d", "-i", "-D"}

ParseFail == [ok |-> FALSE, kinds |-> <<>>]
ParseOk(kinds) == [ok |-> TRUE, kinds |-> kinds]
Cons(kinds, r) == IF r.ok THEN ParseOk(kinds \o r.kinds) ELSE ParseFail

RECURSIVE ParseScreenshot(_, _)
ParseScreenshot(rest, got_local) ==
  IF rest = <<>> THEN (IF got_local THEN ParseOk(<<>>) ELSE ParseFail)
  ELSE IF Head(rest) = "-d"
  THEN Cons(<<"scalar">>, ParseScreenshot(Tail(rest), got_local))
  ELSE IF Head(rest) \in Options \/ got_local THEN ParseFail
  ELSE Cons(<<"out">>, ParseScreenshot(Tail(rest), TRUE))

RECURSIVE ParseInstaller(_)
ParseInstaller(rest) ==
  IF rest = <<>> THEN ParseOk(<<>>)
  ELSE IF Head(rest) = "-d" THEN Cons(<<"scalar">>, ParseInstaller(Tail(rest)))
  ELSE IF Head(rest) = "-i" /\ Len(rest) >= 2 /\ rest[2] \notin Options
  THEN Cons(<<"scalar", "in">>, ParseInstaller(Tail(Tail(rest))))
  ELSE ParseFail

RECURSIVE SkipValues(_)
\* nargs='*': the arguments after -D up to the next option
SkipValues(rest) ==
  IF rest = <<>> \/ Head(rest) \in Options THEN rest ELSE SkipValues(Tail(rest))

RECURSIVE ParseAppRunner(_)
\* DAction: "-D" and its first value become the one entry "-D<value>"; with
\* no value, value[0] raises
ParseAppRunner(rest) ==
  IF rest = <<>> THEN ParseOk(<<>>)
  ELSE IF Head(rest) = "-D" /\ SkipValues(Tail(rest)) # Tail(rest)
  THEN Cons(<<"scalar">>, ParseAppRunner(SkipValues(Tail(rest))))
  ELSE ParseFail

\* PARSER.parse_args(args)
ParseArgs(a) ==
  IF a = <<>> THEN ParseFail
  ELSE IF Head(a) = "idevicescreenshot"
  THEN Cons(<<"scalar">>, ParseScreenshot(Tail(a), FALSE))
  ELSE IF Head(a) = "ideviceinstaller"
  THEN Cons(<<"scalar">>, ParseInstaller(Tail(a)))
  ELSE IF Head(a) = "idevice-app-runner"
  THEN Cons(<<"scalar">>, ParseAppRunner(Tail(a)))
  ELSE ParseFail

\* the text argparse sees for a Param's value
ArgText(v) == IF v.k = "str" THEN v.s ELSE "PATH"

(***************************************************************************)
(* _ValidateCommand: TRUE when it returns, FALSE when it raises.           *)
(***************************************************************************)
\* Provided without the output-file check of lines 259-263
Provided_InputOnly(required, provided) ==
  (required = "in") = (provided.header.in_ # None)

\* lines 254-263, for one index
Provided(required, provided) ==
  /\ (required = "in") = (provided.header.in_ # None)
  /\ (required = "out") = (provided.out_dn # NoPath)

ValidateCommand(ps) ==
  LET r == ParseArgs([i \in 1..Len(ps) |-> ArgText(ps[i].value)])
  IN /\ \A i \in 1..Len(ps) : ps[i].value.k # "none"
     /\ r.ok
     /\ Len(r.kinds) = Len(ps)
     /\ \A i \in 1..Len(ps) : Provided(r.kinds[i], ps[i])


(***************************************************************************)
(* The request chunks a client may send: any header a client can put on    *)
(* the wire, drawn from the small sets below.                              *)
(***************************************************************************)
Tokens == Commands \cup Options \cup {"x"}
Names == {"f", ".", ".."}
Indexes == 0..(MaxParams - 1)

Rel(comps) == [abs |-> FALSE, comps |-> comps]
Abs(comps) == [abs |-> TRUE, comps |-> comps]

\* one entry per chunk, or a link followed by a file named through it
TarPayloads ==
  { <<TarFile(Rel(<<"a">>))>>, <<TarFile(Rel(<<"..", "escape">>))>>,
    <<TarFile(Abs(<<"tmp", "abs">>))>>,
    <<TarLink(Rel(<<"lnk">>), <<"tmp">>), TarFile(Rel(<<"lnk", "b">>))>> }

\* <<is_absent, is_empty>> as a client sets them
FileFlags == {<<None, None>>, <<"True", "True">>}

\* a scalar; the second set carries an empty "in" value
ScalarChunks ==
  {Chunk(Hdr(1, Id("a", n), None, None, None, None, None), t, <<>>, <<>>, TRUE) :
     n \in Indexes, t \in Tokens}
  \cup
  {Chunk(Hdr(1, Id("i", n), "", None, None, None, None), "x", <<>>, <<>>, TRUE) :
     n \in Indexes}

FileChunks ==
  {Chunk(Hdr(1, Id("i", n), in, None, fl[1], fl[2], None), "", <<0>>, <<>>, TRUE) :
     n \in Indexes, in \in Names, fl \in FileFlags}

TarChunks ==
  {Chunk(Hdr(1, Id("i", n), in, None, None, None, "True"), "", <<>>, ents, TRUE) :
     n \in Indexes, in \in {"f"}, ents \in TarPayloads}

OutputChunks ==
  {Chunk(Hdr(1, Id("o", n), None, out, None, "True", tar), "", <<>>, <<>>, TRUE) :
     n \in Indexes, out \in Names, tar \in {None, "True"}}

\* a wrong id letter, both in and out, a missing CRLF, an id that is no
\* argument id, a header line that does not parse
OddChunks ==
  {Chunk(Hdr(1, Id("a", n), "f", None, None, None, None), "", <<0>>, <<>>, TRUE) :
     n \in Indexes}
  \cup
  {Chunk(Hdr(1, Id("i", n), "f", "f", None, None, None), "", <<0>>, <<>>, TRUE) :
     n \in Indexes}
  \cup
  {Chunk(Hdr(1, Id("a", n), None, None, None, None, None), "x", <<>>, <<>>, FALSE) :
     n \in Indexes}
  \cup
  {Chunk(Hdr(1, Id("1", -1), None, None, None, None, None), "x", <<>>, <<>>, TRUE),
   BadChunk}

RequestChunks ==
  ScalarChunks \cup FileChunks \cup TarChunks \cup OutputChunks \cup OddChunks
    \cup {Terminator}


(***************************************************************************)
(* ChunkHeader.Format and ChunkHeader.Parse.  A formatted line is          *)
(* [len, items, ok]: the length and the key=value items in the order       *)
(* Format writes them; ok is FALSE when _Validate raised.                  *)
(***************************************************************************)
\* a value _Validate refuses (it holds a character outside [-a-zA-Z0-9_.])
Unsafe == {"a b"}

\* line 707
ValidValue(v) == v \notin Unsafe

\* line 686: str(v) of a field that is not None
StrField(v) == v

\* line 670: 'true' == v.lower()
ParseBool(v) == IF v \in {"True", "true", "TRUE"} THEN "True" ELSE "False"

\* lines 683-688: the items of the fields that are not None, sorted by key
FormatItems(h) ==
  (IF h.id_.l # None THEN <<[k |-> "id", id |-> h.id_, v |-> ""]>> ELSE <<>>)
  \o (IF h.in_ # None THEN <<[k |-> "in", id |-> Id(None, -1), v |-> StrField(h.in_)]>> ELSE <<>>)
  \o (IF h.is_absent_ # None
      THEN <<[k |-> "is_absent", id |-> Id(None, -1), v |-> StrField(h.is_absent_)]>> ELSE <<>>)
  \o (IF h.is_empty_ # None
      THEN <<[k |-> "is_empty", id |-> Id(None, -1), v |-> StrField(h.is_empty_)]>> ELSE <<>>)
  \o (IF h.is_tar_ # None
      THEN <<[k |-> "is_tar", id |-> Id(None, -1), v |-> StrField(h.is_tar_)]>> ELSE <<>>)
  \o (IF h.out_ # None THEN <<[k |-> "out", id |-> Id(None, -1), v |-> StrField(h.out_)]>> ELSE <<>>)
  \o (IF h.zz_ # None THEN <<[k |-> "zz", id |-> Id(None, -1), v |-> StrField(h.zz_)]>> ELSE <<>>)

\* lines 676-690
Format(h) ==
  LET items == FormatItems(h)
  IN [len |-> h.len_, items |-> items,
      ok |-> \A i \in 1..Len(items) : ValidValue(items[i].v)]

RECURSIVE SetItems(_, _)
\* lines 662-671: setattr of each item in turn
SetItems(h, items) ==
  IF items = <<>> THEN h
  ELSE LET it == Head(items)
           h1 == CASE it.k = "id" -> [h EXCEPT !.id_ = it.id]
                   [] it.k = "in" -> [h EXCEPT !.in_ = it.v]
                   [] it.k = "out" -> [h EXCEPT !.out_ = it.v]
                   [] it.k = "is_absent" -> [h EXCEPT !.is_absent_ = ParseBool(it.v)]
                   [] it.k = "is_empty" -> [h EXCEPT !.is_empty_ = ParseBool(it.v)]
                   [] it.k = "is_tar" -> [h EXCEPT !.is_tar_ = ParseBool(it.v)]
                   [] it.k = "zz" -> [h EXCEPT !.zz_ = it.v]
       IN SetItems(h1, Tail(items))

\* lines 651-674, on a line '<len>;<items>\r\n': [ok, h], ok is FALSE when
\* Parse raises.  With nothing after the ';' the one item is '' and has no
\* '=' to split at (line 662).
Parse(ln) ==
  [ok |-> ln.items # <<>> /\ \A i \in 1..Len(ln.items) : ValidValue(ln.items[i].v),
   h |-> [SetItems(Hdr(0, Id(None, -1), None, None, None, None, None), ln.items)
            EXCEPT !.len_ = IF ln.len > 0 THEN ln.len ELSE 0]]

\* the headers formatted and parsed on their own: every field unset or set
Headers ==
  {[Hdr(len, id, in, out, absent, empty, tar) EXCEPT !.zz_ = zz] :
     len \in {1, 10}, id \in {Id(None, -1), Id("1", -1), Id("a", 0)},
     in \in {None, "", "f"} \cup Unsafe,
     out \in {None, "t"}, absent \in {None, "True", "False"},
     empty \in {None, "True"}, tar \in {None, "False"}, zz \in {None, "v"}}

(***************************************************************************)
(* SendChunk.  The payload is text (a scalar's value), file bytes or tar   *)
(* entries; the result is [ok, h, chunk]: h is the header as SendChunk     *)
(* left it (it is the caller's object), chunk is what the receiver parses. *)
(***************************************************************************)
Dash == 45   \* ord('-')

\* SendChunk without the filler: an empty payload is sent as it is
SendChunk_NoFiller(header, tok, bytes, ents) ==
  LET h2 == [header EXCEPT !.len_ = IF tok = "" /\ ents = <<>> THEN Len(bytes) ELSE 1]
  IN [ok |-> Format(h2).ok, h |-> h2,
      chunk |-> Chunk(Parse(Format(h2)).h, tok, bytes, ents, TRUE)]

SendChunk(header, tok, bytes, ents) ==
  LET nodata == tok = "" /\ bytes = <<>> /\ ents = <<>>
      h1 == IF nodata THEN [header EXCEPT !.is_empty_ = "True"] ELSE header
      h2 == [h1 EXCEPT !.len_ = IF bytes # <<>> THEN Len(bytes) ELSE 1]
      ln == Format(h2)
  IN [ok |-> ln.ok, h |-> h2,
      chunk |-> Chunk(Parse(ln).h,
                      IF nodata THEN "-" ELSE tok,
                      IF nodata THEN <<Dash>> ELSE bytes, ents, TRUE)]

\* Pieces without the loop: one read, the rest of the data is left behind
Pieces_OneRead(data) ==
  IF data = <<>> THEN <<>>
  ELSE <<SubSeq(data, 1, IF Len(data) < MAX_READ THEN Len(data) ELSE MAX_READ)>>

\* data read MAX_READ bytes at a time: the pieces, in order
RECURSIVE Pieces(_)
Pieces(data) ==
  IF Len(data) <= MAX_READ THEN (IF data = <<>> THEN <<>> ELSE <<data>>)
  ELSE <<SubSeq(data, 1, MAX_READ)>> \o Pieces(SubSeq(data, MAX_READ + 1, Len(data)))

\* the chunks of a regular file's bytes under one header (the read loops of
\* InputFileParameter.SendTo and _WriteOutputFile)
FileChunksOf(header, data) ==
  IF data = <<>> THEN <<SendChunk(header, "", <<>>, <<>>)>>
  ELSE LET ps == Pieces(data)
       IN [i \in 1..Len(ps) |-> SendChunk(header, "", ps[i], <<>>)]

(***************************************************************************)
(* str() and int() of an exit status: decimal text as character codes.     *)
(***************************************************************************)
RECURSIVE Digits(_)
Digits(n) == IF n < 10 THEN <<48 + n>> ELSE Append(Digits(n \div 10), 48 + (n % 10))

Str(n) == IF n < 0 THEN <<Dash>> \o Digits(0 - n) ELSE Digits(n)

RECURSIVE DigitsValue(_, _)
DigitsValue(acc, s) ==
  IF s = <<>> THEN acc ELSE DigitsValue(10 * acc + (Head(s) - 48), Tail(s))

IsDigits(s) == s # <<>> /\ \A i \in 1..Len(s) : s[i] \in 48..57

\* int(text): [ok, v]; ok is FALSE when int() raises ValueError
ParseInt(s) ==
  IF IsDigits(s) THEN [ok |-> TRUE, v |-> DigitsValue(0, s)]
  ELSE IF s # <<>> /\ Head(s) = Dash /\ IsDigits(Tail(s))
  THEN [ok |-> TRUE, v |-> 0 - DigitsValue(0, Tail(s))]
  ELSE [ok |-> FALSE, v |-> 0]

(***************************************************************************)
(* do_POST, one action per step of the handler.                            *)
(***************************************************************************)
\* the child: polled tells that proc.poll() has returned its status (the
\* process is reaped and its pid is gone)
NoChild == [st |-> "none", out |-> 0, err |-> 0, rc |-> 0, polled |-> FALSE]
NoRet == [done |-> FALSE, none |-> TRUE, v |-> 0]

InitServer ==
  /\ pc = "read"
  /\ on_error = "400"
  /\ status = <<>>
  /\ connected = TRUE
  /\ params = <<>>
  /\ root_fn = None
  /\ fs = {Dir(<<"tmp">>)}
  /\ pipes = [i \in 1..MaxParams |-> NoPipe]
  /\ spawned = "no"
  /\ args = <<>>
  /\ reqs = <<>>
  /\ nchunks = 0
  /\ unread = FALSE
  /\ child = NoChild
  /\ pout = <<>>
  /\ perr = <<>>
  /\ rlist = {}
  /\ sent = <<>>

\* no client of ours: the request is whatever arrives
NoClient ==
  /\ cparams = <<>>
  /\ cfs = {}
  /\ cpc = "off"
  /\ rpos = 0
  /\ cout = <<>>
  /\ cerr = <<>>
  /\ exitbuf = <<>>
  /\ opened = {}
  /\ ctar = <<>>
  /\ ret = NoRet
  /\ exit_code = -1

\* no header is formatted or parsed on its own
(***************************************************************************)
(* UntarPipe (client 798-832), with the thread that writes to it and       *)
(* closes it and the UntarThread that reads from it.  Each method runs      *)
(* under the condition's lock, so it is one step, but for cv.wait(), which  *)
(* gives the lock up: the reader is then "wait" until a notify() makes it   *)
(* "woken", and it takes read's loop up again from there.  written and got  *)
(* record what was written and what read returned; raised counts the        *)
(* RuntimeErrors of write.                                                  *)
(***************************************************************************)
MaxWrites == 3   \* most calls of write
MaxData == 2     \* longest data of one write
MaxCloses == 2   \* most calls of close
MaxBytes == 2    \* largest max_bytes of a read

\* __init__, lines 801-804
NewUntarPipe ==
  [buf |-> <<>>, closed |-> FALSE, reader |-> "idle", written |-> <<>>,
   got |-> <<>>, nw |-> 0, ncl |-> 0, raised |-> 0]

\* cv.notify(): the waiting thread, if there is one, is woken
Notify(p) == IF p.reader = "wait" THEN [p EXCEPT !.reader = "woken"] ELSE p

Notifies_Second(n) == n = 2

\* line 812: write notifies when the buffer it added is the only one
Notifies(n) == n = 1

\* write, lines 806-813
UntarPipeWrite(p, data) ==
  IF p.closed THEN [p EXCEPT !.raised = @ + 1]
  ELSE LET q == [p EXCEPT !.buf = Append(@, data), !.written = @ \o data]
       IN IF Notifies(Len(q.buf)) THEN Notify(q) ELSE q

\* what read returned: the value and the max_bytes it was called with
Got(v, max_bytes) == [v |-> v, max |-> max_bytes]

\* read, lines 815-826.  The reader (tarfile) stops at the first empty
\* string it is given.
UntarPipeRead(p, max_bytes) ==
  IF p.buf = <<>>
  THEN IF p.closed
       THEN [p EXCEPT !.got = Append(@, Got(<<>>, max_bytes)), !.reader = "done"]
       ELSE [p EXCEPT !.reader = "wait"]
  ELSE IF Len(p.buf[1]) <= max_bytes
  THEN [p EXCEPT !.got = Append(@, Got(p.buf[1], max_bytes)),
                 !.buf = Tail(@),
                 !.reader = IF p.buf[1] = <<>> THEN "done" ELSE "idle"]
  ELSE [p EXCEPT !.got = Append(@, Got(SubSeq(p.buf[1], 1, max_bytes), max_bytes)),
                 !.buf[1] = SubSeq(@, max_bytes + 1, Len(@)),
                 !.reader = "idle"]

\* close, lines 828-832
UntarPipeClose(p) == IF ~p.closed THEN Notify([p EXCEPT !.closed = TRUE]) ELSE p

\* the writer's data: n bytes, numbered on from those written before
NextData(n) == [k \in 1..n |-> Len(upipe.written) + k]

PipeWrite ==
  /\ upipe.nw < MaxWrites
  /\ \E n \in 0..MaxData :
       upipe' = [UntarPipeWrite(upipe, NextData(n)) EXCEPT !.nw = @ + 1]
  /\ UNCHANGED <<svars, procv, sent, reqwire, cvars, hdr, line, parsed, cmdline,
                 nsparams>>

PipeClose ==
  /\ upipe.ncl < MaxCloses
  /\ upipe' = [UntarPipeClose(upipe) EXCEPT !.ncl = @ + 1]
  /\ UNCHANGED <<svars, procv, sent, reqwire, cvars, hdr, line, parsed, cmdline,
                 nsparams>>

\* the reader calls read, or comes back from cv.wait() into read's loop
PipeRead ==
  /\ upipe.reader \in {"idle", "woken"}
  /\ \E max_bytes \in 1..MaxBytes : upipe' = UntarPipeRead(upipe, max_bytes)
  /\ UNCHANGED <<svars, procv, sent, reqwire, cvars, hdr, line, parsed, cmdline,
                 nsparams>>

NoHeader ==
  /\ hdr = NoHdr
  /\ line = <<>>
  /\ parsed = <<>>
  /\ cmdline = <<>>
  /\ nsparams = <<>>
  /\ upipe = NewUntarPipe

Init == InitServer /\ reqwire = <<>> /\ NoClient /\ NoHeader

\* lines 92-96: one pass of the loop around _ReadChunk
Read(c, eof) ==
  /\ pc = "read"
  /\ LET r == ReadChunk([params |-> params, fs |-> fs, pipes |-> pipes,
                         root |-> root_fn], c, eof)
     IN /\ params' = r.params
        /\ fs' = r.fs
        /\ pipes' = r.pipes
        /\ root_fn' = r.root
        /\ pc' = CASE r.res = "more" -> "read"
                   [] r.res = "end" -> "validate"
                   [] r.res = "spin" -> "read_exactly"
                   [] OTHER -> "except"
        /\ on_error' = IF r.res = "end" THEN "403" ELSE on_error
  /\ nchunks' = nchunks + 1
  \* rfile.readline() took the terminator's line from the socket with or
  \* without the CRLF that follows it, as the bytes had arrived
  /\ IF c.h.len_ <= 0 /\ ~c.bad THEN unread' \in BOOLEAN ELSE unread' = unread
  /\ UNCHANGED <<status, connected, spawned, args, reqs, procv, sent, cvars>>
  /\ UNCHANGED hvars

\* any chunk may arrive, within the bounds
ReadRequest ==
  \E c \in RequestChunks :
    /\ c.h.len_ > 0 => nchunks < MaxChunks
    /\ Locate(params, c.h) = "new" => Len(params) < MaxParams
    /\ Read(c, FALSE)
    /\ UNCHANGED reqwire

\* the client closes the connection in the middle of a chunk: after the
\* header line, with the payload or the CRLF after it cut short
ReadTruncated ==
  \E c \in RequestChunks \ {Terminator} :
    /\ nchunks < MaxChunks
    /\ Locate(params, c.h) = "new" => Len(params) < MaxParams
    /\ Read(c, TRUE)
    /\ UNCHANGED reqwire

\* lines 96-99
Validate ==
  /\ pc = "validate"
  /\ IF ValidateCommand(params)
     THEN /\ pc' = "respond"
          /\ on_error' = "500"
          /\ reqs' = ParseArgs([i \in 1..Len(params) |-> ArgText(params[i].value)]).kinds
     ELSE /\ pc' = "except"
          /\ UNCHANGED <<on_error, reqs>>
  /\ UNCHANGED <<status, connected, params, root_fn, fs, pipes, spawned, args,
                 nchunks, unread, procv, sent, reqwire, cvars>>
  /\ UNCHANGED hvars

\* on_error left at the value it had while the response head was sent
OnErrorAfterResponse_Kept == "500"

\* line 101: on_error once the status code is sent
OnErrorAfterResponse == None

\* lines 100-101: _BeginResponse; the send fails on a closed connection
BeginResponse ==
  /\ pc = "respond"
  /\ IF connected
     THEN /\ status' = Append(status, "200")
          /\ on_error' = OnErrorAfterResponse
          /\ pc' = "run"
     ELSE /\ pc' = "except"
          /\ UNCHANGED <<status, on_error>>
  /\ UNCHANGED <<connected, params, root_fn, fs, pipes, spawned, args, reqs,
                 nchunks, unread, procv, sent, reqwire, cvars>>
  /\ UNCHANGED hvars

(***************************************************************************)
(* _RunCommand: Popen, then the loop, one action for select() and one for  *)
(* the rest of the pass; the child runs beside it.                         *)
(***************************************************************************)
MaxOut == 2   \* most bytes the child writes to its stdout
MaxErr == 1   \* most bytes the child writes to its stderr
ExitCodes == {0, 3, 12}   \* the statuses the child may exit with
ENOENT == 2   \* the errno of the OSError Popen raises

\* the k-th byte the child writes to a stream tells the stream and k
OutByte(k) == k
ErrByte(k) == 10 + k
ChildStdout(n) == [k \in 1..n |-> OutByte(k)]
ChildStderr(n) == [k \in 1..n |-> ErrByte(k)]

\* '%s\n' % e, the text of the exception
ErrorText == <<69, 10>>

\* the headers of the three ChunkedOutputStreams (lines 300-305)
StdoutHeader == Hdr(0, Id("1", -1), None, None, None, None, None)
StderrHeader == Hdr(0, Id("2", -1), None, None, None, None, None)
\* the exit chunk written under a stream's header that is not the exit one
ExitHeader_AsStderr == Hdr(0, Id("2", -1), None, None, None, None, None)
ExitHeader == Hdr(0, Id("exit", -1), None, None, None, None, None)

\* ChunkedOutputStream.write: nothing for an empty buf
StreamWrite(header, buf) ==
  IF buf = <<>> THEN <<>> ELSE <<SendChunk(header, "", buf, <<>>).chunk>>

\* select() reports the request stream readable: unread bytes, or end of file
Readable == unread \/ ~connected

\* a pipe is readable when it holds bytes or its write end is closed
PipeReady(buf) == buf # <<>> \/ child.st \in {"exited", "killed"}

\* lines 105-109 and 314-320: the args are built and Popen is called
Popen ==
  /\ pc = "run"
  /\ args' = [i \in 1..Len(params) |-> params[i].value]
  /\ \/ /\ spawned' = "ok"
        /\ child' = [NoChild EXCEPT !.st = "running"]
        /\ pc' = "select"
        /\ sent' = sent
     \/ /\ spawned' = "failed"
        /\ child' = child
        /\ \/ /\ sent' = sent \o StreamWrite(StderrHeader, ErrorText)
                             \o StreamWrite(ExitHeader, Str(ENOENT))
              /\ pc' = "write"
           \/ /\ ~connected
              /\ sent' = sent
              /\ pc' = "except"
  /\ UNCHANGED <<on_error, status, connected, params, root_fn, fs, pipes, reqs,
                 nchunks, unread, pout, perr, rlist, reqwire, cvars>>
  /\ UNCHANGED hvars

\* lines 326-330: select() returns what is ready now (nothing: the timeout)
Select ==
  /\ pc = "select"
  /\ rlist' = (IF PipeReady(pout) THEN {"stdout"} ELSE {})
              \cup (IF PipeReady(perr) THEN {"stderr"} ELSE {})
              \cup (IF Readable THEN {"from_stream"} ELSE {})
  /\ pc' = "body"
  /\ UNCHANGED <<srest, child, pout, perr, sent, reqwire, cvars>>
  /\ UNCHANGED hvars

\* os.read(fd, MAX_READ): up to MAX_READ of the bytes in the pipe
OsRead(buf) == SubSeq(buf, 1, IF Len(buf) < MAX_READ THEN Len(buf) ELSE MAX_READ)
\* Rest that leaves the bytes read in the pipe
Rest_KeepAll(buf, read) == buf

\* what os.read leaves in the pipe
Rest(buf, read) == SubSeq(buf, Len(read) + 1, Len(buf))

\* AfterPass without the break of line 348: the loop goes on after the
\* exit chunk
AfterPass_NoBreak(exits) == "select"

\* lines 346-348: the loop ends with the pass that wrote the exit chunk
AfterPass(exits) == IF exits THEN "write" ELSE "select"

\* lines 331-348: the pass after select()
Body ==
  /\ pc = "body"
  /\ IF "from_stream" \in rlist
     THEN \* proc.kill() is os.kill(pid, SIGKILL): OSError once the child is reaped
          /\ child' = IF child.st = "running" THEN [child EXCEPT !.st = "killed"]
                      ELSE child
          /\ pc' = IF child.polled THEN "except" ELSE "write"
          /\ UNCHANGED <<pout, perr, sent>>
     ELSE LET read_out == IF "stdout" \in rlist THEN OsRead(pout) ELSE <<>>
              read_err == IF "stderr" \in rlist THEN OsRead(perr) ELSE <<>>
              exits == child.st # "running" /\ read_out = <<>> /\ read_err = <<>>
              out == StreamWrite(StdoutHeader, read_out)
                       \o StreamWrite(StderrHeader, read_err)
                       \o (IF exits THEN StreamWrite(ExitHeader, Str(child.rc))
                           ELSE <<>>)
          IN /\ pout' = Rest(pout, read_out)
             /\ perr' = Rest(perr, read_err)
             /\ \/ /\ sent' = sent \o out
                   /\ child' = [child EXCEPT !.polled = child.st # "running"]
                   /\ pc' = AfterPass(exits)
                \/ /\ ~connected /\ out # <<>>
                   /\ child' = child
                   /\ sent' = sent
                   /\ pc' = "except"
  /\ UNCHANGED <<srest, rlist, reqwire, cvars>>
  /\ UNCHANGED hvars

(***************************************************************************)
(* The subprocess.  It writes to its stdout and stderr, leaves a file or a *)
(* directory at the path of an output argument, and exits.                 *)
(***************************************************************************)
FileLens == {0, 1, MAX_READ, MAX_READ + 1, 2 * MAX_READ}
Bytes(n) == [k \in 1..n |-> 20 + k]

OutPositions(ps) ==
  {i \in 1..Len(ps) : ps[i].out_dn # NoPath /\ ps[i].value.k = "path"}

\* where the command writes for an output argument: the path it was given,
\* or a name inside it when the path is the staging directory itself
ChildTarget(prm) ==
  IF prm.value.p = prm.out_dn THEN Append(prm.out_dn, "g") ELSE prm.value.p

ChildWrite ==
  /\ child.st = "running"
  /\ \/ /\ child.out < MaxOut
        /\ child' = [child EXCEPT !.out = @ + 1]
        /\ pout' = Append(pout, OutByte(child.out + 1))
        /\ perr' = perr
     \/ /\ child.err < MaxErr
        /\ child' = [child EXCEPT !.err = @ + 1]
        /\ perr' = Append(perr, ErrByte(child.err + 1))
        /\ pout' = pout
  /\ UNCHANGED <<svars, rlist, sent, reqwire, cvars>>
  /\ UNCHANGED hvars

\* the command leaves a file, a directory with a file in it, or a file and a
\* second file next to it
ChildLeave(i, n) ==
  /\ child.st = "running"
  /\ FsIsDir(fs, params[i].out_dn)
  /\ ~FsHas(fs, ChildTarget(params[i]))
  /\ \/ fs' = fs \cup {File(ChildTarget(params[i]), Bytes(n))}
     \/ /\ n = 0
        /\ fs' = fs \cup {Dir(ChildTarget(params[i])),
                          File(Append(ChildTarget(params[i]), "g"), <<>>)}
     \/ /\ n = 1
        /\ ChildTarget(params[i]) # Append(params[i].out_dn, "log")
        /\ fs' = fs \cup {File(ChildTarget(params[i]), Bytes(n)),
                          File(Append(params[i].out_dn, "log"), <<>>)}
  /\ UNCHANGED <<pc, on_error, status, connected, params, root_fn, pipes,
                 spawned, args, reqs, nchunks, unread, procv, sent, reqwire,
                 cvars>>
  /\ UNCHANGED hvars

ChildExit(s) ==
  /\ child.st = "running"
  /\ child' = [child EXCEPT !.st = "exited", !.rc = s]
  /\ UNCHANGED <<svars, pout, perr, rlist, sent, reqwire, cvars>>
  /\ UNCHANGED hvars

Child ==
  \/ ChildWrite
  \/ \E i \in OutPositions(params), n \in FileLens : ChildLeave(i, n)
  \/ \E s \in ExitCodes : ChildExit(s)

(***************************************************************************)
(* _WriteChunks and _WriteOutputFile.                                      *)
(***************************************************************************)
TarEntry(name, t, l) == [name |-> name, t |-> t, l |-> l]

RECURSIVE SetToSeq(_)
SetToSeq(S) ==
  IF S = {} THEN <<>>
  ELSE LET x == CHOOSE y \in S : \A z \in S : Len(y.p) <= Len(z.p)
       IN <<x>> \o SetToSeq(S \ {x})

\* SendTar's payload: from_fn itself under arcname, then what lies below it
TarOf(f, from_fn, arcname) ==
  LET below == SetToSeq({e \in f : IsPrefix(from_fn, e.p)})
  IN [k \in 1..Len(below) |->
        TarEntry(Rel(arcname \o SubSeq(below[k].p, Len(from_fn) + 1, Len(below[k].p))),
                 below[k].t, below[k].l)]

\* os.listdir(out_dn)
Listdir(f, dn) == {e \in f : Len(e.p) = Len(dn) + 1 /\ IsPrefix(dn, e.p)}

\* _WriteOutputFile that always sends the staging directory as a tar
WriteOutputFile_AlwaysTar(curr, f) ==
  <<SendChunk(Hdr(0, Id("o", curr.index), None, curr.header.out_, None, None, "True"),
              "", <<>>, TarOf(f, curr.out_dn, <<>>)).chunk>>

\* lines 352-382: the chunks written for one output parameter
WriteOutputFile(curr, f) ==
  LET header == Hdr(0, Id("o", curr.index), None, curr.header.out_, None, None, None)
      out_fns == Listdir(f, curr.out_dn)
      one == CHOOSE e \in out_fns : TRUE
  IN IF ~IsTrue(curr.header.is_tar_) /\ out_fns = {}
     THEN <<SendChunk([header EXCEPT !.is_absent_ = "True"], "", <<>>, <<>>).chunk>>
     ELSE IF ~IsTrue(curr.header.is_tar_) /\ Cardinality(out_fns) = 1 /\ one.t = "file"
     THEN LET cs == FileChunksOf(header, one.d)
          IN [k \in 1..Len(cs) |-> cs[k].chunk]
     ELSE <<SendChunk([header EXCEPT !.is_tar_ = "True"], "", <<>>,
                      TarOf(f, curr.out_dn, <<>>)).chunk>>

RECURSIVE WriteOutputFiles(_, _)
\* lines 392-394
WriteOutputFiles(ps, f) ==
  IF ps = <<>> THEN <<>>
  ELSE (IF Head(ps).out_dn # NoPath THEN WriteOutputFile(Head(ps), f) ELSE <<>>)
         \o WriteOutputFiles(Tail(ps), f)

RECURSIVE WriteChunksTo_InLoop(_, _)
\* _WriteChunks with line 395 inside the loop: a terminator per parameter
WriteChunksTo_InLoop(ps, f) ==
  IF ps = <<>> THEN <<>>
  ELSE (IF Head(ps).out_dn # NoPath THEN WriteOutputFile(Head(ps), f) ELSE <<>>)
         \o <<Terminator>> \o WriteChunksTo_InLoop(Tail(ps), f)

\* lines 392-395: what _WriteChunks writes
WriteChunksTo(ps, f) == WriteOutputFiles(ps, f) \o <<Terminator>>

\* line 112: _WriteChunks; a write to a closed connection may raise
WriteChunks ==
  /\ pc = "write"
  /\ \/ /\ sent' = sent \o WriteChunksTo(params, fs)
        /\ pc' = "finally"
     \/ /\ ~connected
        /\ sent' = sent
        /\ pc' = "except"
  /\ UNCHANGED <<srest, procv, reqwire, cvars>>
  /\ UNCHANGED hvars

\* lines 113-118
Except ==
  /\ pc = "except"
  /\ status' = IF on_error # None THEN Append(status, on_error) ELSE status
  /\ pc' = "finally"
  /\ UNCHANGED <<on_error, connected, params, root_fn, fs, pipes, spawned,
                 args, reqs, nchunks, unread, procv, sent, reqwire, cvars>>
  /\ UNCHANGED hvars

\* hdr.Format()
FormatHeader ==
  /\ line = <<>>
  /\ line' = <<Format(hdr)>>
  /\ UNCHANGED <<svars, procv, sent, reqwire, cvars, hdr, parsed, cmdline, nsparams, upipe>>

\* ChunkHeader().Parse(line) of a line that Format returned
ParseLine ==
  /\ line # <<>>
  /\ line[1].ok
  /\ parsed = <<>>
  /\ parsed' = <<Parse(line[1])>>
  /\ UNCHANGED <<svars, procv, sent, reqwire, cvars, hdr, line, cmdline, nsparams, upipe>>

\* lines 119-120: tmp_fs.Cleanup()
Finally ==
  /\ pc = "finally"
  /\ fs' = Cleanup(fs, root_fn)
  /\ root_fn' = None
  /\ pc' = "done"
  /\ UNCHANGED <<on_error, status, connected, params, pipes, spawned, args,
                 reqs, nchunks, unread, procv, sent, reqwire, cvars>>
  /\ UNCHANGED hvars

\* the client closes the connection.  While the request is being read the
\* server sees that as a header line that does not parse (BadChunk).
Disconnect ==
  /\ connected
  /\ pc \in {"respond", "run", "select", "body", "write"}
  /\ connected' = FALSE
  /\ UNCHANGED <<pc, on_error, status, params, root_fn, fs, pipes, spawned,
                 args, reqs, nchunks, unread, procv, sent, reqwire, cvars>>
  /\ UNCHANGED hvars

(***************************************************************************)
(* UntarThread.run, one tar entry per step.  The thread is started by      *)
(* Untar() and is never joined: it runs beside the handler for as long as  *)
(* its pipe feeds it.                                                      *)
(***************************************************************************)
\* line 857
EntryPath(to_dn, entry) == NormJoin(to_dn, entry.name)

\* lines 858-859: the entry is refused
EntryRefused(to_dn, fn) == ~Confined(to_dn, fn)

UntarEntry(i) ==
  /\ pipes[i].st = "run"
  /\ pipes[i].buf # <<>>
  /\ LET entry == Head(pipes[i].buf)
         to_dn == pipes[i].to_dn
         fn == EntryPath(to_dn, entry)
     IN IF EntryRefused(to_dn, fn)
        THEN /\ pipes' = [pipes EXCEPT ![i].buf = Tail(@), ![i].st = "dead"]
             /\ fs' = fs
        ELSE /\ pipes' = [pipes EXCEPT ![i].buf = Tail(@)]
             /\ fs' = Extract(fs, fn, entry)
  /\ UNCHANGED <<pc, on_error, status, connected, params, root_fn, spawned,
                 args, reqs, nchunks, unread, procv, sent, reqwire, cvars>>
  /\ UNCHANGED hvars

\* UntarPipe.read returns '' (closed and empty): the tar ends, run returns
UntarEnd(i) ==
  /\ pipes[i].st = "run"
  /\ pipes[i].buf = <<>>
  /\ pipes[i].closed
  /\ pipes' = [pipes EXCEPT ![i].st = "done"]
  /\ UNCHANGED <<pc, on_error, status, connected, params, root_fn, fs,
                 spawned, args, reqs, nchunks, unread, procv, sent, reqwire,
                 cvars>>
  /\ UNCHANGED hvars

UntarThread == \E i \in 1..MaxParams : UntarEntry(i) \/ UntarEnd(i)

Next ==
  \/ ReadRequest
  \/ Validate
  \/ BeginResponse
  \/ Popen
  \/ Select
  \/ Body
  \/ Child
  \/ WriteChunks
  \/ Except
  \/ Finally
  \/ Disconnect
  \/ UntarThread

Spec == Init /\ [][Next]_vars

(***************************************************************************)
(* The client: main, LabDeviceProxyClient.Call and the Parameters' SendTo. *)
(* A Parameter is [kind, text, fn]: kind is "scalar", "in"                  *)
(* (InputFileParameter) or "out" (OutputFileParameter), text the value of  *)
(* a scalar and fn the path of a file parameter.                           *)
(***************************************************************************)
CParam(kind, v) == [kind |-> kind, text |-> v.s, fn |-> v.p]

\* PARSER.parse_args(args) on the client: the Parameters, in order
ClientParams(argv) ==
  LET r == ParseArgs([i \in 1..Len(argv) |-> ArgText(argv[i])])
  IN [i \in 1..Len(argv) |-> CParam(r.kinds[i], argv[i])]

\* os.path.basename
Basename(fn) == fn[Len(fn)]

FsIsFile(f, p) == \E e \in f : e.p = p /\ e.t = "file"

\* Parameter.SendTo, lines 242-249
SendScalar(param, index) ==
  <<SendChunk(Hdr(0, Id("a", index), None, None, None, None, None),
              param.text, <<>>, <<>>)>>

\* InputFileParameter.SendTo, lines 286-312
SendInput(param, index, f) ==
  LET in_fn == param.fn
      header == Hdr(0, Id("i", index), Basename(in_fn), None, None, None, None)
  IN IF FsIsFile(f, in_fn) THEN FileChunksOf(header, FsGet(f, in_fn).d)
     ELSE IF FsHas(f, in_fn)
     THEN <<SendChunk([header EXCEPT !.is_tar_ = "True"], "", <<>>,
                      TarOf(f, in_fn, <<Basename(in_fn)>>))>>
     ELSE <<SendChunk([header EXCEPT !.is_absent_ = "True"], "", <<>>, <<>>)>>

\* OutputFileParameter.SendTo, lines 325-342
SendOutput(param, index, f) ==
  LET out_fn == param.fn
      header == Hdr(0, Id("o", index), None, None, None, None, None)
  IN IF FsIsDir(f, out_fn)
     THEN <<SendChunk([header EXCEPT !.is_tar_ = "True", !.out_ = "."],
                      "", <<>>, <<>>)>>
     ELSE <<SendChunk([header EXCEPT
                         !.is_absent_ = IF FsHas(f, out_fn) THEN None ELSE "True",
                         !.out_ = Basename(out_fn)],
                      "", <<>>, <<>>)>>

SendTo(param, index, f) ==
  CASE param.kind = "in" -> SendInput(param, index, f)
    [] param.kind = "out" -> SendOutput(param, index, f)
    [] OTHER -> SendScalar(param, index)

RECURSIVE SendAll(_, _, _)
\* lines 133-134: every Parameter's chunks, in order
SendAll(ps, index, f) ==
  IF ps = <<>> THEN <<>>
  ELSE SendTo(Head(ps), index, f) \o SendAll(Tail(ps), index + 1, f)

RECURSIVE UntilRaise(_)
\* the chunks that reach the wire before a SendChunk raises
UntilRaise(cs) ==
  IF cs = <<>> \/ ~Head(cs).ok THEN <<>>
  ELSE <<Head(cs).chunk>> \o UntilRaise(Tail(cs))

\* main's exit (line 95) after Call raised: exit_code is still 1, and
\* Call's finally closed the connection
ClientRaise ==
  /\ cpc' = "exited"
  /\ exit_code' = 1
  /\ connected' = FALSE

\* _SendRequest, lines 128-135
SendRequest ==
  /\ cpc = "send"
  /\ LET cs == SendAll(cparams, 0, cfs)
         raises == \E i \in 1..Len(cs) : ~cs[i].ok
     IN IF raises
        THEN /\ reqwire' = reqwire \o UntilRaise(cs)
             /\ ClientRaise
        ELSE /\ reqwire' = reqwire \o UntilRaise(cs) \o <<Terminator>>
             /\ cpc' = "wait"
             /\ UNCHANGED <<exit_code, connected>>
  /\ UNCHANGED <<pc, on_error, status, params, root_fn, fs, pipes, spawned,
                 args, reqs, nchunks, unread, procv, sent, cparams, cfs, rpos,
                 cout, cerr, exitbuf, opened, ctar, ret>>
  /\ UNCHANGED hvars

\* the server reads what the client sent; at end of file readline() returns
\* '' and the header does not parse
ReadWire ==
  IF reqwire # <<>>
  THEN Read(Head(reqwire), FALSE) /\ reqwire' = Tail(reqwire)
  ELSE ~connected /\ Read(BadChunk, FALSE) /\ reqwire' = reqwire

\* lines 150-155: the status line
GetResponse ==
  /\ cpc = "wait"
  /\ status # <<>>
  /\ IF status[1] = "200"
     THEN cpc' = "read" /\ UNCHANGED <<exit_code, connected>>
     ELSE ClientRaise
  /\ UNCHANGED <<pc, on_error, status, params, root_fn, fs, pipes, spawned,
                 args, reqs, nchunks, unread, procv, sent, reqwire, cparams,
                 cfs, rpos, cout, cerr, exitbuf, opened, ctar, ret>>
  /\ UNCHANGED hvars

(***************************************************************************)
(* _ReadResponse, one chunk per step.                                      *)
(***************************************************************************)
\* id_to_fn: the o<N> ids of the OutputFileParameters, and their paths
OutIds == {i - 1 : i \in {j \in 1..Len(cparams) : cparams[j].kind = "out"}}
LocalFn(n) == cparams[n + 1].fn

IsStd(id) == id.l \in {"1", "2", "exit"}
IsOpen(id) == id.l = "o" /\ \E o \in opened : o.n = id.n

CS(res, out, err, ex, f, op, tar) ==
  [res |-> res, cout |-> out, cerr |-> err, exitbuf |-> ex, cfs |-> f,
   opened |-> op, ctar |-> tar]

\* line 198: fp.write(data) on the fp of the chunk's id
WriteTo(S, c) ==
  LET id == c.h.id_
  IN CASE id.l = "1" -> [S EXCEPT !.cout = @ \o c.bytes]
       [] id.l = "2" -> [S EXCEPT !.cerr = @ \o c.bytes]
       [] id.l = "exit" -> [S EXCEPT !.exitbuf = @ \o c.bytes]
       [] \E o \in S.opened : o.n = id.n /\ o.pipe ->
            [S EXCEPT !.ctar = @ \o c.ents]
       [] OTHER ->
            [S EXCEPT !.cfs = FsPut(@, File(LocalFn(id.n),
                                            FsGet(@, LocalFn(id.n)).d \o c.bytes))]

Skipped_AbsentOnly(header) == IsTrue(header.is_absent_)

\* line 181: the chunk's payload is read and dropped
Skipped(header) == IsTrue(header.is_absent_) \/ IsTrue(header.is_empty_)

\* lines 173-200: one pass of the loop; res is "more", "break" or "raise"
HandleChunk(c) ==
  LET S == CS("more", cout, cerr, exitbuf, cfs, opened, ctar)
      h == c.h
      id == h.id_
      known == IsStd(id) \/ IsOpen(id)
      fn == LocalFn(id.n)
      as_tar == IsTrue(h.is_tar_)
      as_file == FsIsFile(cfs, fn) \/ ~FsHas(cfs, fn)
      S1 == IF known THEN S
            ELSE IF as_tar
            THEN [S EXCEPT !.opened = @ \cup {[n |-> id.n, pipe |-> TRUE]}]
            ELSE [S EXCEPT !.opened = @ \cup {[n |-> id.n, pipe |-> FALSE]},
                           !.cfs = FsPut(@, File(fn, <<>>))]
  IN IF c.bad THEN [S EXCEPT !.res = "raise"]
     ELSE IF h.len_ <= 0 THEN [S EXCEPT !.res = "break"]
     ELSE IF ~known /\ ~(id.l = "o" /\ id.n \in OutIds)
     THEN [S EXCEPT !.res = "raise"]
     ELSE IF Skipped(h)
     THEN [S EXCEPT !.res = IF c.crlf THEN "more" ELSE "raise"]
     ELSE IF ~known /\ ~as_tar /\ ~as_file THEN [S EXCEPT !.res = "raise"]
     ELSE [WriteTo(S1, c) EXCEPT !.res = IF c.crlf THEN "more" ELSE "raise"]

\* line 207: the value Call returns
Returned(ex) == [done |-> TRUE, none |-> ex = <<>>, v |-> ParseInt(ex).v]

\* sys.exit(exit_code), line 95: None exits with status 0, an integer with
\* its low eight bits
SysExit(r) == IF r.none THEN 0 ELSE r.v % 256

ClientRead ==
  /\ cpc = "read"
  /\ rpos < Len(sent) \/ pc = "done"
  /\ LET r == HandleChunk(IF rpos < Len(sent) THEN sent[rpos + 1] ELSE BadChunk)
     IN /\ cout' = r.cout
        /\ cerr' = r.cerr
        /\ exitbuf' = r.exitbuf
        /\ cfs' = r.cfs
        /\ opened' = r.opened
        /\ ctar' = r.ctar
        /\ rpos' = IF r.res = "raise" THEN rpos ELSE rpos + 1
        /\ IF r.res = "more"
           THEN UNCHANGED <<cpc, ret, exit_code, connected>>
           ELSE IF r.res = "break" /\ (exitbuf = <<>> \/ ParseInt(exitbuf).ok)
           THEN /\ ret' = Returned(exitbuf)
                /\ exit_code' = SysExit(Returned(exitbuf))
                /\ cpc' = "exited"
                /\ connected' = FALSE
           ELSE ClientRaise /\ ret' = ret
  /\ UNCHANGED <<pc, on_error, status, params, root_fn, fs, pipes, spawned,
                 args, reqs, nchunks, unread, procv, sent, reqwire, cparams>>
  /\ UNCHANGED hvars

\* the user interrupts the client (SIGINT has its default action, line 54)
ClientKill ==
  /\ cpc \in {"wait", "read"}
  /\ cpc' = "killed"
  /\ exit_code' = 130
  /\ connected' = FALSE
  /\ UNCHANGED <<pc, on_error, status, params, root_fn, fs, pipes, spawned,
                 args, reqs, nchunks, unread, procv, sent, reqwire, cparams,
                 cfs, rpos, cout, cerr, exitbuf, opened, ctar, ret>>
  /\ UNCHANGED hvars

(***************************************************************************)
(* A client run against the server: the command lines and the local files  *)
(* the client starts from.                                                 *)
(***************************************************************************)
Home == <<"home">>
HomeF == <<"home", "f">>
HomeT == <<"home", "t">>
HomeU == <<"home", "a b">>
OldBytes == <<9>>

PushArgv(fn) == <<StrVal("ideviceinstaller"), StrVal("-i"), PathVal(fn)>>
PullArgv(fn) == <<StrVal("idevicescreenshot"), PathVal(fn)>>

ClientRuns ==
  {[argv |-> PushArgv(HomeF), cfs |-> {Dir(Home), File(HomeF, Bytes(n))}] :
     n \in FileLens}
  \cup
  {[argv |-> PushArgv(HomeF), cfs |-> {Dir(Home)}],
   [argv |-> PushArgv(HomeF),
    cfs |-> {Dir(Home), Dir(HomeF), File(Append(HomeF, "g"), <<>>)}],
   [argv |-> PushArgv(HomeU), cfs |-> {Dir(Home), File(HomeU, Bytes(1))}],
   [argv |-> PullArgv(HomeT), cfs |-> {Dir(Home)}],
   [argv |-> PullArgv(HomeT), cfs |-> {Dir(Home), File(HomeT, OldBytes)}],
   [argv |-> PullArgv(HomeT), cfs |-> {Dir(Home), Dir(HomeT)}]}

InitCall ==
  /\ InitServer
  /\ NoHeader
  /\ reqwire = <<>>
  /\ \E run \in ClientRuns :
       /\ cparams = ClientParams(run.argv)
       /\ cfs = run.cfs
  /\ cpc = "send"
  /\ rpos = 0
  /\ cout = <<>>
  /\ cerr = <<>>
  /\ exitbuf = <<>>
  /\ opened = {}
  /\ ctar = <<>>
  /\ ret = NoRet
  /\ exit_code = -1

NextCall ==
  \/ SendRequest
  \/ ReadWire
  \/ Validate
  \/ BeginResponse
  \/ Popen
  \/ Select
  \/ Body
  \/ Child
  \/ WriteChunks
  \/ Except
  \/ Finally
  \/ UntarThread
  \/ GetResponse
  \/ ClientRead
  \/ ClientKill

SpecCall == InitCall /\ [][NextCall]_vars

(***************************************************************************)
(* PARSER.parse_args on its own, for `adb logcat [-d] [-t <int>]           *)
(* [filterspecs...]` and `idevice-app-runner [-D <str>*]`.  An entry of    *)
(* the params list is [t, s, n]: a string (an option's name, a command, a  *)
(* string value), an int value, or t = "D": the name "-D" followed by s.   *)
(***************************************************************************)
StrEntry(s) == [t |-> "str", s |-> s, n |-> 0]
IntEntry(n) == [t |-> "int", s |-> "", n |-> n]
NoName == [t |-> "none", s |-> "", n |-> 0]
TrueValue == [t |-> "bool", s |-> "", n |-> 1]

\* int(token) of the tokens that int() accepts
IntOf(tok) == CASE tok = "0" -> 0 [] tok = "1" -> 1 [] tok = "01" -> 1
IsIntToken(tok) == tok \in {"0", "1", "01"}
IsOptionToken(tok) == tok \in {"-d", "-t", "-D"}

\* lines 361-370, ParameterNamespace.__setattr__ for a value that is no
\* list: name is the restored option name (NoName when the attribute's name
\* has no leading '_')
SetAttr(ps, name, value) ==
  LET ps1 == IF name # NoName THEN Append(ps, name) ELSE ps
      truthy == (value.t = "str" /\ value.s # "") \/ (value.t = "int" /\ value.n # 0)
  IN IF truthy THEN Append(ps1, value) ELSE ps1

RECURSIVE ParseLogcat(_, _)
\* adb_logcat, lines 565-579: -d is store_true, -t takes an int, the first
\* other token starts the REMAINDER list, whose items are appended as they are
ParseLogcat(rest, ps) ==
  IF rest = <<>> THEN [ok |-> TRUE, ps |-> ps]
  ELSE IF Head(rest) = "-d"
  THEN ParseLogcat(Tail(rest), SetAttr(ps, StrEntry("-d"), TrueValue))
  ELSE IF Head(rest) = "-t"
  THEN IF Len(rest) >= 2 /\ IsIntToken(rest[2])
       THEN ParseLogcat(Tail(Tail(rest)),
                        SetAttr(ps, StrEntry("-t"), IntEntry(IntOf(rest[2]))))
       ELSE [ok |-> FALSE, ps |-> ps]
  ELSE IF IsOptionToken(Head(rest)) THEN [ok |-> FALSE, ps |-> ps]
  ELSE [ok |-> TRUE, ps |-> ps \o [i \in 1..Len(rest) |-> StrEntry(rest[i])]]

RECURSIVE ParseRunner(_, _)
\* idevice_app_runner, line 446, and DAction, lines 428-432: -D takes every
\* value that follows and sets the attribute named '_D' + value[0] to True
ParseRunner(rest, ps) ==
  IF rest = <<>> THEN [ok |-> TRUE, ps |-> ps]
  ELSE IF Head(rest) = "-D" /\ Len(rest) >= 2 /\ ~IsOptionToken(rest[2])
  THEN ParseRunner(SkipValues(Tail(rest)),
                   SetAttr(ps, [t |-> "D", s |-> rest[2], n |-> 0], TrueValue))
  ELSE [ok |-> FALSE, ps |-> ps]

\* lines 417-425: parse_args; each subparsers action sets `command`
ParseArgv(a) ==
  IF Len(a) >= 2 /\ a[1] = "adb" /\ a[2] = "logcat"
  THEN ParseLogcat(SubSeq(a, 3, Len(a)),
                   SetAttr(SetAttr(<<>>, NoName, StrEntry("adb")), NoName,
                           StrEntry("logcat")))
  ELSE IF Len(a) >= 1 /\ a[1] = "idevice-app-runner"
  THEN ParseRunner(Tail(a), SetAttr(<<>>, NoName, StrEntry("idevice-app-runner")))
  ELSE [ok |-> FALSE, ps |-> <<>>]

MaxTokens == 3   \* most tokens after the command
SeqsUpTo(S, n) == UNION {[1..k -> S] : k \in 0..n}

\* the command lines parsed
Cmdlines ==
  {<<"adb", "logcat">> \o r : r \in SeqsUpTo({"-d", "-t", "0", "1", "01", "", "x"}, MaxTokens)}
  \cup
  {<<"idevice-app-runner">> \o r : r \in SeqsUpTo({"-D", "x", "y", ""}, MaxTokens)}

ParseCmdline ==
  /\ cmdline # <<>>
  /\ nsparams = <<>>
  /\ nsparams' = <<ParseArgv(cmdline)>>
  /\ UNCHANGED <<svars, procv, sent, reqwire, cvars, hdr, line, parsed, cmdline, upipe>>

InitParse ==
  /\ cmdline \in Cmdlines
  /\ nsparams = <<>>
  /\ upipe = NewUntarPipe
  /\ hdr = NoHdr
  /\ line = <<>>
  /\ parsed = <<>>
  /\ pc = "off"
  /\ on_error = None
  /\ status = <<>>
  /\ connected = FALSE
  /\ params = <<>>
  /\ root_fn = None
  /\ fs = {}
  /\ pipes = [i \in 1..MaxParams |-> NoPipe]
  /\ spawned = "no"
  /\ args = <<>>
  /\ reqs = <<>>
  /\ nchunks = 0
  /\ unread = FALSE
  /\ child = NoChild
  /\ pout = <<>>
  /\ perr = <<>>
  /\ rlist = {}
  /\ sent = <<>>
  /\ reqwire = <<>>
  /\ NoClient

NextParse == ParseCmdline

SpecParse == InitParse /\ [][NextParse]_vars

(***************************************************************************)
(* An UntarPipe on its own, with one writer and one reader.  The reader's   *)
(* thread runs whenever it can (weak fairness of its step); the writer      *)
(* writes and closes when it likes.                                        *)
(***************************************************************************)
InitPipe ==
  /\ cmdline = <<>>
  /\ nsparams = <<>>
  /\ upipe = NewUntarPipe
  /\ hdr = NoHdr
  /\ line = <<>>
  /\ parsed = <<>>
  /\ pc = "off"
  /\ on_error = None
  /\ status = <<>>
  /\ connected = FALSE
  /\ params = <<>>
  /\ root_fn = None
  /\ fs = {}
  /\ pipes = [i \in 1..MaxParams |-> NoPipe]
  /\ spawned = "no"
  /\ args = <<>>
  /\ reqs = <<>>
  /\ nchunks = 0
  /\ unread = FALSE
  /\ child = NoChild
  /\ pout = <<>>
  /\ perr = <<>>
  /\ rlist = {}
  /\ sent = <<>>
  /\ reqwire = <<>>
  /\ NoClient

NextPipe ==
  \/ PipeWrite
  \/ PipeClose
  \/ PipeRead

SpecPipe == InitPipe /\ [][NextPipe]_vars

SpecPipeFair == SpecPipe /\ WF_vars(PipeRead)

(***************************************************************************)
(* ChunkHeader on its own: a header is formatted and the line is parsed by *)
(* a fresh ChunkHeader; no request is served.                              *)
(***************************************************************************)
InitHeader ==
  /\ hdr \in Headers
  /\ line = <<>>
  /\ parsed = <<>>
  /\ cmdline = <<>>
  /\ nsparams = <<>>
  /\ upipe = NewUntarPipe
  /\ pc = "off"
  /\ on_error = None
  /\ status = <<>>
  /\ connected = FALSE
  /\ params = <<>>
  /\ root_fn = None
  /\ fs = {}
  /\ pipes = [i \in 1..MaxParams |-> NoPipe]
  /\ spawned = "no"
  /\ args = <<>>
  /\ reqs = <<>>
  /\ nchunks = 0
  /\ unread = FALSE
  /\ child = NoChild
  /\ pout = <<>>
  /\ perr = <<>>
  /\ rlist = {}
  /\ sent = <<>>
  /\ reqwire = <<>>
  /\ NoClient

NextHeader == FormatHeader \/ ParseLine

SpecHeader == InitHeader /\ [][NextHeader]_vars

(***************************************************************************)
(* Properties of the POST handler.                                         *)
(***************************************************************************)
ArgTexts(ps) == [i \in 1..Len(ps) |-> ArgText(ps[i].value)]

\* the grammar accepts the reconstructed values, the lengths agree and each
\* position's class is what the client supplied
Accepted(ps) ==
  LET r == ParseArgs(ArgTexts(ps))
  IN /\ r.ok
     /\ Len(r.kinds) = Len(ps)
     /\ \A i \in 1..Len(ps) :
          /\ (r.kinds[i] = "in") = (ps[i].header.in_ # None)
          /\ (r.kinds[i] = "out") = (ps[i].out_dn # NoPath)

\* C1: the subprocess is spawned only after Phase 1 ended at the terminator
\* and Phase 2 accepted the request (the grammar parses the values, the
\* lengths agree, every position's class is the one the client supplied);
\* a request Phase 2 refuses is answered 403 and spawns nothing.
C1_SpawnOnlyIfValidated ==
  /\ spawned # "no" => on_error = None /\ Accepted(params)
  /\ (pc \in {"except", "finally", "done"} /\ on_error = "403")
       => ~Accepted(params) /\ spawned = "no"
  /\ (pc \in {"finally", "done"} /\ on_error = "403") => status = <<"403">>

C1_Witness ==
  /\ spawned = "ok"
  /\ \E i \in 1..Len(params) : reqs[i] = "out" /\ params[i].out_dn # NoPath

\* C2: every Param was created by a chunk whose id is a<N>, i<N> or o<N>
\* with N the position it took, so params[i].index = i at every position.
C2_IndexIsPosition ==
  \A i \in 1..Len(params) :
    /\ params[i].index = i - 1
    /\ params[i].header.id_.l \in {"a", "i", "o"}
    /\ params[i].header.id_.n = i - 1

\* two parameters built from three accepted chunks: one was a continuation
C2_Witness == pc = "read" /\ Len(params) = 2 /\ nchunks = 3

\* C3: nothing is ever created outside the request's temp root (/tmp itself
\* is there from the start).
C3_Confinement == \A e \in fs : e.p = <<"tmp">> \/ IsPrefix(TmpRoot, e.p)

\* C4: at spawn, every argument the grammar classes as an input file is a
\* path inside that parameter's own staging directory.
C4_InputArgIsStagedPath ==
  spawned = "ok" =>
    \A i \in 1..Len(args) :
      reqs[i] = "in" =>
        /\ args[i].k = "path"
        /\ IsPrefix(MkdirPath(InPrefix[i]), args[i].p)

\* C5: once the handler has returned, the temp root does not exist.
C5_RootGoneAfterReturn == pc = "done" => \A e \in fs : ~IsPrefix(TmpRoot, e.p)

(***************************************************************************)
(* Properties of a client run against the server.                          *)
(***************************************************************************)
ExitChunks == {k \in 1..Len(sent) : sent[k].h.id_.l = "exit"}

\* C6: when the child exited with status s and the client read the response
\* up to its terminator, the response holds an exit chunk whose payload is
\* the decimal text of s and Call returned s; a response without an exit
\* chunk makes Call return None.
C6_ExitCodePassthrough ==
  /\ (ret.done /\ child.st = "exited") =>
       /\ \E k \in ExitChunks : sent[k].bytes = Str(child.rc)
       /\ ~ret.none
       /\ ret.v = child.rc
  /\ (ret.done /\ ExitChunks = {}) => ret.none

\* C7: the client process exits with the status the server reported when it
\* reported one, and with a non-zero status in every other case.
C7_ClientExitCode ==
  cpc = "exited" =>
    IF ret.done /\ ExitChunks # {}
    THEN exit_code = (IF spawned = "ok" THEN child.rc ELSE ENOENT)
    ELSE exit_code # 0

PushedFiles ==
  {i \in 1..Len(cparams) : cparams[i].kind = "in" /\ FsIsFile(cfs, cparams[i].fn)}

RECURSIVE Concat(_)
Concat(ss) == IF ss = <<>> THEN <<>> ELSE Head(ss) \o Concat(Tail(ss))

\* the whole request is on the wire: the chunks of each regular input file
\* are consecutive i<N> chunks of at most MAX_READ bytes that add up to the
\* file (one is_empty chunk for an empty file)
C9_Chunks ==
  (cpc = "wait" /\ nchunks = 0) =>
    \A i \in PushedFiles :
      LET data == FsGet(cfs, cparams[i].fn).d
          ks == {k \in 1..Len(reqwire) : reqwire[k].h.id_ = Id("i", i - 1)}
          lo == CHOOSE k \in ks : \A j \in ks : k <= j
          own == SubSeq(reqwire, lo, lo + Cardinality(ks) - 1)
      IN /\ ks # {}
         /\ \A k \in 1..Len(own) :
              /\ own[k].h.id_ = Id("i", i - 1)
              /\ own[k].h.len_ <= MAX_READ
              /\ own[k].h.len_ = Len(own[k].bytes)
         /\ IF data = <<>>
            THEN Len(own) = 1 /\ IsTrue(own[1].h.is_empty_)
            ELSE /\ \A k \in 1..Len(own) : ~IsTrue(own[k].h.is_empty_)
                 /\ Concat([k \in 1..Len(own) |-> own[k].bytes]) = data

\* the step that calls Popen: the staged file of each regular input file
\* exists and holds the client file's bytes
C9_AtSpawn ==
  (spawned = "no" /\ spawned' # "no") =>
    \A i \in PushedFiles :
      /\ args'[i].k = "path"
      /\ FsIsFile(fs, args'[i].p)
      /\ FsGet(fs, args'[i].p).d = FsGet(cfs, cparams[i].fn).d

\* C9: a regular client file of any length at an input-file position goes
\* out as consecutive i<N> chunks of at most MAX_READ bytes each (a single
\* is_empty chunk when it is empty), and at spawn the server's staged file
\* exists and holds the same bytes.
C9_PushRoundTrip == []C9_Chunks /\ [][C9_AtSpawn]_vars

\* a file of two full pieces was staged and the command was spawned
C9_Witness ==
  /\ spawned = "ok"
  /\ \E i \in PushedFiles :
       /\ Len(FsGet(cfs, cparams[i].fn).d) = 2 * MAX_READ
       /\ FsIsFile(fs, args[i].p)
       /\ FsGet(fs, args[i].p).d = FsGet(cfs, cparams[i].fn).d

\* C10: the command left exactly one regular file in the staging directory
\* of an output parameter whose local target was absent or a regular file;
\* once the client has read the response to its end, the local target is a
\* regular file holding that file's bytes.  (Read while the handler stands
\* before its cleanup, so that the server's file can still be looked at.)
C10_PullRoundTrip ==
  (pc = "finally" /\ cpc = "exited" /\ ret.done) =>
    \A i \in 1..Len(cparams) :
      (/\ cparams[i].kind = "out"
       /\ ~IsTrue(params[i].header.is_tar_)
       /\ Cardinality(Listdir(fs, params[i].out_dn)) = 1
       /\ \A e \in Listdir(fs, params[i].out_dn) : e.t = "file")
      => /\ FsIsFile(cfs, cparams[i].fn)
         /\ \A e \in Listdir(fs, params[i].out_dn) :
              FsGet(cfs, cparams[i].fn).d = e.d


\* the positions of the terminator in the response
Terminators == {k \in 1..Len(sent) : sent[k].h.len_ = 0}

\* the positions of the output-file chunks in the response
OutputPositions == {k \in 1..Len(sent) : sent[k].h.id_.l = "o"}

\* C11 as the specification states it: whatever follows an exit chunk in the
\* response is the terminator
C11_AsStated ==
  \A k \in ExitChunks : \A j \in (k + 1)..Len(sent) : j \in Terminators

\* C11: in every response, what follows an exit chunk is output-file chunks
\* and the terminator only: no stdout, stderr or second exit chunk
C11_ExitThenOnlyOutputs ==
  \A k \in ExitChunks :
    \A j \in (k + 1)..Len(sent) : j \in Terminators \cup OutputPositions

C11_Witness ==
  \E k \in ExitChunks :
    /\ k > 1
    /\ k + 1 \in OutputPositions
    /\ Len(sent) \in Terminators


\* the response is in the order of C12: nothing but output-file chunks and
\* the terminator follows an output-file chunk, the output-file chunks are in
\* ascending N (so the chunks of one N are contiguous), and a terminator is
\* the last chunk
C12_Order ==
  /\ \A j \in OutputPositions :
       \A k \in (j + 1)..Len(sent) : k \in OutputPositions \cup Terminators
  /\ \A j \in OutputPositions : \A k \in OutputPositions :
       j < k => sent[j].h.id_.n <= sent[k].h.id_.n
  /\ \A k \in Terminators : k = Len(sent)

\* _WriteChunks returned: it wrote, and the one terminator is the last chunk
C12_Written ==
  (pc = "write" /\ pc' = "finally") =>
    /\ Len(sent') > Len(sent)
    /\ {k \in 1..Len(sent') : sent'[k].h.len_ = 0} = {Len(sent')}

\* C12: in every response the o<N> chunks come after the exit chunk and after
\* every stdout and stderr chunk, in ascending N with the chunks of one N
\* contiguous, and the terminator is written exactly once, as the last thing
C12_OutputsThenTerminator == []C12_Order /\ [][C12_Written]_vars

C12_Witness ==
  /\ pc = "done"
  /\ \E e \in ExitChunks : \E s \in 1..Len(sent) : \E j \in OutputPositions :
       /\ sent[s].h.id_.l \in {"1", "2"}
       /\ s < j /\ e < j
       /\ j + 1 \in OutputPositions
       /\ j + 2 \in Terminators


\* the pass of the loop that finds the request stream readable: the child is
\* not left running, nothing is written and the loop is left
C13_KillPass ==
  (pc = "body" /\ pc' # "body" /\ "from_stream" \in rlist) =>
    /\ child'.st # "running"
    /\ sent' = sent
    /\ pc' \in {"write", "except"}

\* a pass of the loop writes the exit chunk exactly when it ends the loop
\* because the child exited
C13_ExitPass ==
  (pc = "body" /\ pc' # "body") =>
    (Len(sent') > Len(sent) /\ sent'[Len(sent')].h.id_.l = "exit"
     <=> pc' = "write" /\ "from_stream" \notin rlist /\ child.st = "exited")

\* C13: when the request body becomes readable the forwarding loop kills the
\* child and ends without an exit chunk; a run of the loop emits at most one
\* exit chunk, and emits it exactly when it ends because the child exited,
\* never after a kill
C13_KillOrExitChunk ==
  /\ [](Cardinality(ExitChunks) <= 1)
  /\ [](child.st = "killed" => ExitChunks = {})
  /\ [][C13_KillPass /\ C13_ExitPass]_vars

C13_Witness ==
  /\ pc = "write"
  /\ child.st = "killed"
  /\ sent # <<>>
  /\ ExitChunks = {}


\* the forwarding loop found the request stream readable and was left
Detected == "from_stream" \in rlist /\ pc \in {"write", "except", "finally", "done"}

\* C14: after a client disconnect detected during the forwarding loop the
\* server writes no output-file chunk: the response holds no o<N> chunk
C14_NoOutputAfterDisconnect == (Detected /\ ~connected) => OutputPositions = {}


\* every field of h is unset or holds a value of the value grammar, and h
\* has none but the emitted keys
Emitted(h) == h.zz_ = None /\ (h.in_ # None => ValidValue(h.in_))

\* C15: a header with len > 0 and only emitted keys, each unset or set to a
\* value of the value grammar (no field set included), is formatted without
\* error, the line parses, and the parsed header equals it
C15_HeaderRoundTrip ==
  (Emitted(hdr) /\ hdr.len_ > 0) =>
    /\ line # <<>> => line[1].ok
    /\ parsed # <<>> => parsed[1].ok /\ parsed[1].h = hdr


\* the keys ChunkHeader declares
KnownKeys == {"id", "in", "out", "is_absent", "is_empty", "is_tar"}

\* a formatted line without its items of unknown keys
KnownOnly(ln) == [ln EXCEPT !.items = SelectSeq(@, LAMBDA it : it.k \in KnownKeys)]

\* C16: an unknown key of a parsed line is ignored: the parsed header equals
\* the one parsed from the line without that key, and formatting the parsed
\* header does not emit the key
C16_UnknownKeyIgnored ==
  (parsed # <<>> /\ parsed[1].ok) =>
    /\ parsed[1].h = Parse(KnownOnly(line[1])).h
    /\ Format(parsed[1].h).items = KnownOnly(Format(parsed[1].h)).items


\* the handler has returned after _ReadChunk raised (on_error was still 400)
Phase1Failed == pc = "done" /\ on_error = "400"

\* C17: a protocol error in Phase 1 makes the server answer 400, no
\* subprocess is spawned and the temp root is removed
C17_ProtocolError400 ==
  Phase1Failed =>
    /\ status = <<"400">>
    /\ spawned = "no"
    /\ \A e \in fs : ~IsPrefix(TmpRoot, e.p)


\* the path joined from the header of parameter i leaves its staging directory
Escapes(i) ==
  LET h == params[i].header
  IN IF Truthy(h.in_)
     THEN /\ ~Truthy(h.out_)
          /\ ~Confined(MkdirPath(InPrefix[i]), NormJoin(MkdirPath(InPrefix[i]), OneComp(h.in_)))
     ELSE /\ Truthy(h.out_)
          /\ ~Confined(MkdirPath(OutPrefix[i]), NormJoin(MkdirPath(OutPrefix[i]), OneComp(h.out_)))

\* C18: a request with an in or out value that leaves its staging directory
\* is answered 403, spawns nothing, and nothing of it is kept after cleanup
C18_Confinement403 ==
  (pc = "done" /\ \E i \in 1..Len(params) : Escapes(i)) =>
    /\ status = <<"403">>
    /\ spawned = "no"
    /\ \A e \in fs : ~IsPrefix(TmpRoot, e.p)


\* an UntarThread of the request met an entry that leaves its extraction root
TarRefused == \E i \in 1..MaxParams : pipes[i].st = "dead"

\* C19: a pushed tar with an entry that leaves its extraction root, in a
\* request that Phase 1 read to its end, makes the server answer 403: no 200
\* is sent, no subprocess is spawned, and no file exists outside the temp root
C19_TarEscape403 ==
  (pc = "done" /\ TarRefused /\ on_error # "400") =>
    /\ status = <<"403">>
    /\ spawned = "no"
    /\ \A e \in fs : e.p = <<"tmp">> \/ IsPrefix(TmpRoot, e.p)


\* C20: when the POST handler has returned, no UntarThread of the request is
\* still running or blocked in read
C20_WorkersJoined ==
  pc = "done" => \A i \in 1..MaxParams : pipes[i].st # "run"


PushedDirs ==
  {i \in 1..Len(cparams) : cparams[i].kind = "in" /\ FsIsDir(cfs, cparams[i].fn)}

\* Popen is called: the argument of a pushed directory is a directory that
\* holds every entry of the client's directory
C21_AtSpawn ==
  (spawned = "no" /\ spawned' # "no") =>
    \A i \in PushedDirs :
      /\ args'[i].k = "path"
      /\ FsIsDir(fs, args'[i].p)
      /\ \A e \in cfs :
           IsPrefix(cparams[i].fn, e.p) =>
             LET staged == args'[i].p \o SubSeq(e.p, Len(cparams[i].fn) + 1, Len(e.p))
             IN /\ FsHas(fs, staged)
                /\ FsGet(fs, staged).t = e.t
                /\ FsGet(fs, staged).d = e.d

\* C21: when the client pushes a directory, the staged path handed to the
\* subprocess is, at the moment of the spawn, a directory that holds every
\* entry of the client's directory with the same bytes
C21_PushDirectory == [][C21_AtSpawn]_vars


\* the handler has returned from a request that Phase 1 read to its end
Phase1Passed == pc = "done" /\ on_error # "400"

C22_Status ==
  /\ Len(status) <= 1
  /\ Phase1Failed => status = <<"400">>
  /\ (Phase1Passed /\ ~ValidateCommand(params)) => status = <<"403">>
  /\ (Phase1Passed /\ ValidateCommand(params)) =>
       \/ status = <<"200">>
       \/ status = <<"500">> /\ ~connected /\ spawned = "no"

\* once 200 is sent the status line stays the only one
C22_After200 == status = <<"200">> => status' = status

TarForNoDir(c) ==
  /\ c.h.id_.l = "o"
  /\ c.h.id_.n \in OutIds
  /\ IsTrue(c.h.is_tar_)
  /\ ~IsTrue(c.h.is_absent_) /\ ~IsTrue(c.h.is_empty_)
  /\ ~FsIsDir(cfs, LocalFn(c.h.id_.n))

\* C23: the client does not accept an is_tar chunk for an output argument
\* whose local target is not an existing directory: it reads no such chunk
\* without raising and opens no Untar pipe for such a target
C23_TarForFileIsError ==
  /\ \A k \in 1..rpos : ~TarForNoDir(sent[k])
  /\ \A o \in opened : o.pipe => FsIsDir(cfs, LocalFn(o.n))


\* the entry stands for the token: the same text, or the token's int value
TokenEntry(e, tok) ==
  \/ e.t = "str" /\ e.s = tok
  \/ e.t = "int" /\ IsIntToken(tok) /\ IntOf(tok) = e.n

RECURSIVE OnePerToken(_, _)
\* ps holds one entry per token of a, in order, but one entry for each pair
\* of "-D" and the value after it
OnePerToken(ps, a) ==
  IF a = <<>> \/ ps = <<>> THEN a = <<>> /\ ps = <<>>
  ELSE IF Head(ps).t = "D"
  THEN /\ Len(a) >= 2 /\ a[1] = "-D" /\ a[2] = Head(ps).s
       /\ OnePerToken(Tail(ps), Tail(Tail(a)))
  ELSE TokenEntry(Head(ps), Head(a)) /\ OnePerToken(Tail(ps), Tail(a))

\* C24: an accepted command line parses to a flat list with one entry per
\* token, in the order of the tokens (index = position), except that "-D"
\* and its value become one entry
C24_OneEntryPerToken ==
  (nsparams # <<>> /\ nsparams[1].ok) => OnePerToken(nsparams[1].ps, cmdline)


\* the bytes of the response chunks of stream l, in order
StreamBytes(l) ==
  LET own == SelectSeq(sent, LAMBDA c : c.h.id_.l = l)
  IN Concat([k \in 1..Len(own) |-> own[k].bytes])

\* C25: the exit chunk is emitted only after the child has exited and every
\* byte it wrote to stdout and stderr has been emitted in id=1 and id=2 chunks
C25_NoOutputLost ==
  (spawned = "ok" /\ ExitChunks # {}) =>
    /\ child.st = "exited"
    /\ StreamBytes("1") = ChildStdout(child.out)
    /\ StreamBytes("2") = ChildStderr(child.err)



(***************************************************************************)
(* Phases 1 and 2 of the handler for a request whose connection may end    *)
(* inside a chunk.  The handler's thread keeps running: its next step is   *)
(* taken whenever it has one (weak fairness).  In "read_exactly" the       *)
(* thread runs the read loop, whose iterations leave every variable as it  *)
(* is.                                                                     *)
(***************************************************************************)
NextEof ==
  \/ ReadRequest
  \/ ReadTruncated
  \/ Validate
  \/ Except
  \/ Finally

SpecEof == Init /\ [][NextEof]_vars /\ WF_vars(NextEof)

\* C26: Phase 1 terminates for every request body, one cut off in the
\* middle of a chunk included: reading ends with the terminator or with a
\* protocol error, and after an error the handler reaches cleanup and
\* returns.
C26_Phase1Terminates == <>(pc \in {"respond", "done"})



\* C27: for a client that stays connected, after Phase 1 select() never
\* reports the request stream readable, and the child is killed only when
\* the client has closed the connection.
C27_KillOnlyOnClose ==
  /\ (connected /\ pc # "read") => "from_stream" \notin rlist
  /\ child.st = "killed" => ~connected



\* the last parameter's header with the len of h, as line 173 leaves it
PrevHeader(h) == [params[Len(params)].header EXCEPT !.len_ = h.len_]

\* what the claim requires of a continuation chunk with header h
ContinuationOk(h) ==
  /\ h = PrevHeader(h)
  /\ Truthy(h.in_)
  /\ params[Len(params)].in_fp # None
  /\ ~IsTrue(h.is_empty_)
  /\ ~IsTrue(h.is_absent_)

C28_Rule ==
  pc = "read" =>
    \A c \in RequestChunks :
      Locate(params, c.h) = "cont" =>
        LET r == ReadChunk([params |-> params, fs |-> fs, pipes |-> pipes,
                            root |-> root_fn], c, FALSE)
        IN /\ r.res = "more" => ContinuationOk(c.h)
           /\ ~ContinuationOk(c.h) => r.res = "raise"

\* a chunk was read, reading goes on and no parameter was added: the chunk
\* was taken as a continuation
C28_Cont ==
  (pc = "read" /\ pc' = "read" /\ nchunks' = nchunks + 1
     /\ Len(params') = Len(params)) =>
    LET n == Len(params)
    IN /\ n > 0
       /\ params[n].in_fp # None
       /\ params'[n].in_fp = params[n].in_fp
       /\ Truthy(params[n].header.in_)
       /\ ~IsTrue(params[n].header.is_empty_)
       /\ ~IsTrue(params[n].header.is_absent_)
       /\ params'[n].header =
            [params[n].header EXCEPT !.len_ = params'[n].header.len_]

\* a sink is open only for the last parameter and only until the terminator
\* was read (on_error is "400" during Phase 1 and after its failure)
C28_Sinks ==
  \A i \in 1..Len(params) :
    (params[i].in_fp # None \/ (pipes[i].st # "none" /\ ~pipes[i].closed)) =>
      i = Len(params) /\ on_error = "400"

OnWire == {reqwire[k] : k \in 1..Len(reqwire)} \cup {sent[k] : k \in 1..Len(sent)}

\* the payload is the one-byte filler
IsFiller(c) == c.tok = "-" /\ c.bytes = <<Dash>> /\ c.ents = <<>>

\* C29: every chunk on the wire but the terminator has len > 0, a payload
\* of len bytes and the CRLF after it; a chunk marked is_empty carries the
\* one-byte filler; a header with len 0 is the end-of-stream terminator.
C29_NoZeroLengthChunk ==
  \A c \in OnWire :
    /\ ~c.bad
    /\ c.h.len_ <= 0 => c = Terminator
    /\ c.h.len_ > 0 =>
         /\ c.crlf
         /\ c.tok # "" \/ c.bytes # <<>> \/ c.ents # <<>>
         /\ c.bytes # <<>> => Len(c.bytes) = c.h.len_
         /\ IsTrue(c.h.is_empty_) => IsFiller(c)

\* the client pushed an empty file: its chunk, with the filler, is on the
\* wire
C29_Witness ==
  \E k \in 1..Len(reqwire) :
    Truthy(reqwire[k].h.in_) /\ IsTrue(reqwire[k].h.is_empty_)
      /\ ~IsTrue(reqwire[k].h.is_absent_) /\ IsFiller(reqwire[k])



\* the o<N> chunks this step added to the response for the parameter at i
Emits(i) ==
  SelectSeq(SubSeq(sent', Len(sent) + 1, Len(sent')),
            LAMBDA c : c.h.id_ = Id("o", params[i].index))

BytesOf(cs) == Concat([k \in 1..Len(cs) |-> cs[k].bytes])

C30_AtWrite ==
  (pc = "write" /\ pc' = "finally") =>
    \A i \in 1..Len(params) :
      params[i].out_dn # NoPath =>
        LET cs == Emits(i)
            out_fns == Listdir(fs, params[i].out_dn)
            is_tar == IsTrue(params[i].header.is_tar_)
        IN /\ cs # <<>>
           /\ \A k \in 1..Len(cs) : cs[k].h.out_ = params[i].header.out_
           /\ IF ~is_tar /\ out_fns = {}
              THEN Len(cs) = 1 /\ IsTrue(cs[1].h.is_absent_)
                     /\ ~IsTrue(cs[1].h.is_tar_)
              ELSE IF ~is_tar /\ \E e \in out_fns : out_fns = {e} /\ e.t = "file"
              THEN LET e == CHOOSE e \in out_fns : TRUE
                   IN /\ \A k \in 1..Len(cs) :
                           /\ ~IsTrue(cs[k].h.is_tar_)
                           /\ ~IsTrue(cs[k].h.is_absent_)
                           /\ cs[k].h.len_ <= MAX_READ
                      /\ IF e.d = <<>>
                         THEN Len(cs) = 1 /\ IsTrue(cs[1].h.is_empty_)
                         ELSE /\ BytesOf(cs) = e.d
                              /\ \A k \in 1..Len(cs) : ~IsTrue(cs[k].h.is_empty_)
              ELSE /\ \A k \in 1..Len(cs) :
                        IsTrue(cs[k].h.is_tar_) /\ ~IsTrue(cs[k].h.is_absent_)
                   /\ Len(cs[1].ents)
                        = Cardinality({e \in fs : IsPrefix(params[i].out_dn, e.p)})

\* C30: per output parameter Phase 5 emits one is_absent chunk when a
\* placeholder without is_tar has an empty staging directory; the bytes of
\* the single regular file, in chunks of at most MAX_READ bytes without
\* is_tar (one is_empty chunk for an empty file), when it holds exactly that;
\* and the whole staging directory with is_tar in every other case.
C30_Phase5Decision == [][C30_AtWrite]_vars

\* Phase 5 wrote a file of two full pieces as two chunks
C30_Witness ==
  /\ pc = "finally"
  /\ \E k \in OutputPositions :
       /\ k + 1 \in OutputPositions
       /\ sent[k].h.len_ = MAX_READ /\ sent[k + 1].h.len_ = MAX_READ
       /\ ~IsTrue(sent[k].h.is_tar_)



StderrChunks == {k \in 1..Len(sent) : sent[k].h.id_.l = "2"}

\* C31: when Popen fails the response holds exactly one id=2 chunk with the
\* exception's text and after it exactly one exit chunk with its errno, the
\* forwarding loop is never entered, the output chunks and the terminator
\* follow, and the client returns that non-zero code.
C31_SpawnFailure ==
  /\ (spawned = "failed" /\ (connected \/ ret.done)) =>
       /\ pc \in {"write", "finally", "done"}
       /\ child.st = "none" /\ rlist = {} /\ pout = <<>> /\ perr = <<>>
       /\ \E k \in StderrChunks, x \in ExitChunks :
            /\ StderrChunks = {k} /\ ExitChunks = {x} /\ k < x
            /\ sent[k].bytes = ErrorText
            /\ sent[x].bytes = Str(ENOENT)
            /\ \A j \in 1..Len(sent) : j > x => j \in OutputPositions \cup Terminators
       /\ pc \in {"finally", "done"} => Terminators = {Len(sent)}
  /\ (spawned = "failed" /\ cpc = "exited" /\ ret.done) =>
       exit_code = ENOENT /\ exit_code # 0 /\ ~ret.none /\ ret.v = ENOENT

\* the client read the whole response of a failed spawn and exited
C31_Witness ==
  spawned = "failed" /\ cpc = "exited" /\ ret.done /\ exit_code = ENOENT



\* the client took the response chunk at rpos + 1, marked is_absent or
\* is_empty, and goes on reading
C32_Step ==
  (cpc = "read" /\ rpos < Len(sent) /\ rpos' = rpos + 1
     /\ sent[rpos + 1].h.len_ > 0
     /\ (IsTrue(sent[rpos + 1].h.is_absent_) \/ IsTrue(sent[rpos + 1].h.is_empty_))) =>
    /\ cpc' = "read"
    /\ UNCHANGED <<cout, cerr, exitbuf, cfs, opened, ctar>>

\* C32: a response chunk marked is_absent or is_empty is consumed by the
\* client without output: stdout, stderr, the exit buffer, the local files,
\* the opened files and extractors all stay as they are.
C32_SkippedChunk == [][C32_Step]_vars

\* the client has passed an is_empty chunk of an output file and has opened
\* nothing for its id
C32_Witness ==
  \E k \in 1..rpos :
    /\ sent[k].h.id_.l = "o"
    /\ IsTrue(sent[k].h.is_empty_) /\ ~IsTrue(sent[k].h.is_absent_)
    /\ \A o \in opened : o.n # sent[k].h.id_.n



\* the values read returned so far, joined
GotBytes == Concat([k \in 1..Len(upipe.got) |-> upipe.got[k].v])

\* a write on the closed pipe raises and leaves the buffers as they are; a
\* second close changes nothing
C33_Step ==
  /\ (upipe.closed /\ upipe'.nw = upipe.nw + 1) =>
       upipe' = [upipe EXCEPT !.nw = @ + 1, !.raised = @ + 1]
  /\ (upipe.closed /\ upipe'.ncl = upipe.ncl + 1) =>
       upipe' = [upipe EXCEPT !.ncl = @ + 1]

\* the reader was given the empty string only on the closed pipe, after
\* every byte written
C33_Eos ==
  upipe.reader = "done" =>
    upipe.closed /\ upipe.buf = <<>> /\ GotBytes = upipe.written

\* C33: a write on a closed UntarPipe raises and leaves the buffered data
\* unchanged, close is idempotent, and the data written before the close is
\* returned by the reads after it before read reports end-of-stream.
C33_AfterClose == []C33_Eos /\ [][C33_Step]_vars



\* a reader inside cv.wait() that no notify() has reached has nothing to
\* read and no close to see
C34_NoLostWakeup ==
  upipe.reader = "wait" => upipe.buf = <<>> /\ ~upipe.closed

\* a write is possible whatever the reader does
C34_WriteNeverBlocks == upipe.nw < MaxWrites => ENABLED PipeWrite

\* C34: with one writer and one reader the UntarPipe loses no wake-up and
\* does not deadlock: a reader blocked in read is released by any later write
\* or close and goes on, write never waits for the reader, and once the
\* writer has closed the pipe the reader is given end-of-stream and ends.
C34_NoDeadlock ==
  /\ [](C34_NoLostWakeup /\ C34_WriteNeverBlocks)
  /\ (upipe.reader = "woken") ~> (upipe.reader # "woken")
  /\ upipe.closed ~> (upipe.reader = "done")

\* a write has released the reader that was blocked in read
C34_Witness == upipe.reader = "woken" /\ upipe.buf # <<>> /\ ~upipe.closed



\* the values of the first n reads, joined
GotUpTo(n) == Concat([k \in 1..n |-> upipe.got[k].v])

\* C35: what the reads of an UntarPipe returned, joined, is a prefix of what
\* was written, each value has at most max_bytes bytes, and read returned the
\* empty string only on the closed pipe after every written byte.
C35_ByteStream ==
  /\ IsPrefix(GotBytes, upipe.written)
  /\ \A k \in 1..Len(upipe.got) :
       /\ Len(upipe.got[k].v) <= upipe.got[k].max
       /\ upipe.got[k].v = <<>> =>
            upipe.closed /\ GotUpTo(k - 1) = upipe.written

QueueBound == 2   \* a bound on the buffers held

\* C36: the UntarPipe never holds more than a fixed number of buffers,
\* however many the writer has written before the reader reads.
C36_QueueBounded == Len(upipe.buf) <= QueueBound



\* the client's class of a parameter and the id letter of its chunks
IdLetter(kind) == CASE kind = "in" -> "i" [] kind = "out" -> "o" [] OTHER -> "a"

\* the request as the client left it on the wire, before the server read
\* any of it: chunks of index 0, 1, 2, ... in this order, those of one index
\* together, each parameter with at least one chunk, then the terminator
C37_Wire ==
  (cpc # "send" /\ nchunks = 0) =>
    /\ reqwire # <<>>
    /\ reqwire[Len(reqwire)] = Terminator
    /\ \A k \in 1..(Len(reqwire) - 1) :
         /\ reqwire[k].h.len_ > 0
         /\ reqwire[k].h.id_.n \in 0..(Len(cparams) - 1)
         /\ reqwire[k].h.id_.l = IdLetter(cparams[reqwire[k].h.id_.n + 1].kind)
         /\ k > 1 => reqwire[k].h.id_.n \in {reqwire[k - 1].h.id_.n,
                                               reqwire[k - 1].h.id_.n + 1}
    /\ reqwire[1].h.len_ > 0 => reqwire[1].h.id_.n = 0
    /\ Len(reqwire) > 1 => reqwire[Len(reqwire) - 1].h.id_.n = Len(cparams) - 1

\* Phase 1 is over: it ended at the terminator, and the server's list has
\* the client's length and order
C37_Server ==
  (cpc # "off" /\ pc \notin {"off", "read"}) =>
    /\ ~Phase1Failed
    /\ Len(params) = Len(cparams)
    /\ \A i \in 1..Len(params) :
         /\ params[i].index = i - 1
         /\ params[i].header.id_ = Id(IdLetter(cparams[i].kind), i - 1)

\* C37: for every parameter list of the grammar the client sends the chunks
\* of index 0, 1, 2, ... in order, those of one index together, then the
\* terminator; the server's Phase 1 accepts the stream and builds a list of
\* the same length and order.
C37_RequestAgreement == C37_Wire /\ C37_Server



(***************************************************************************)
(* The forwarding loop on its own, from where _RunCommand is called for    *)
(* the request `ideviceinstaller`: the 200 head is sent, the terminator's   *)
(* CRLF may or may not be read.  The handler's thread keeps running up to   *)
(* the end of do_POST: select() returns after two seconds at the latest,    *)
(* so its steps are weakly fair; the child and the client do as they like.  *)
(***************************************************************************)
InitLoop ==
  /\ pc = "run"
  /\ on_error = OnErrorAfterResponse
  /\ status = <<"200">>
  /\ connected = TRUE
  /\ params = <<[Param(0, Hdr(1, Id("a", 0), None, None, None, None, None))
                   EXCEPT !.value = StrVal("ideviceinstaller")]>>
  /\ root_fn = None
  /\ fs = {Dir(<<"tmp">>)}
  /\ pipes = [i \in 1..MaxParams |-> NoPipe]
  /\ spawned = "no"
  /\ args = <<>>
  /\ reqs = <<"scalar">>
  /\ nchunks = 2
  /\ unread \in BOOLEAN
  /\ child = NoChild
  /\ pout = <<>>
  /\ perr = <<>>
  /\ rlist = {}
  /\ sent = <<>>
  /\ reqwire = <<>>
  /\ NoClient
  /\ NoHeader

NextLoop ==
  \/ Popen
  \/ Select
  \/ Body
  \/ ChildWrite
  \/ \E s \in ExitCodes : ChildExit(s)
  \/ Disconnect
  \/ WriteChunks
  \/ Except
  \/ Finally

\* the handler's steps
HandlerLoop == Popen \/ Select \/ Body \/ WriteChunks \/ Except \/ Finally

SpecLoop == InitLoop /\ [][NextLoop]_vars /\ WF_vars(HandlerLoop)

InLoop == pc \in {"select", "body"}

\* C38: the forwarding loop ends: once the child has exited and while the
\* client stays connected, the loop writes the exit chunk and ends; once the
\* client has disconnected the loop ends too.
C38_LoopTerminates ==
  /\ (child.st = "exited") ~> (~InLoop /\ (ExitChunks # {} \/ ~connected))
  /\ (InLoop /\ ~connected) ~> ~InLoop

=============================================================================
